---- MODULE Spec2Model ----
(***************************************************************************)
(* Verification model of the nanos6-cluster runtime core:                  *)
(*   - the collective shutdown of the worker pool (ThreadManager.cpp),     *)
(*   - the per-task execution workflow (ExecutionWorkflow.cpp),            *)
(*   - the scheduler's construction and one leaf of its tree               *)
(*     (SchedulerInterface.cpp, LeafScheduler.hpp),                        *)
(*   - the start-up of the CPU registry and of the worker pool             *)
(*     (CPUManager.cpp, ThreadManager.cpp).                                *)
(* Each subsystem has its own specification over its own variables; the    *)
(* variables of the other subsystems stay at their initial values.         *)
(***************************************************************************)
EXTENDS Integers, Sequences, FiniteSets, TLC

\* ------------------------------------------------------------------------
\* Bounds
\* ------------------------------------------------------------------------

\* Largest number of CPUs in the process affinity mask (one worker each).
MaxCPUs == 3

\* Largest number of data accesses of a task.
MaxAccesses == 2

\* Number of tasks that become ready on the leaf.
MaxTasks == 5

\* Largest queue threshold the parent gives the leaf.
MaxThreshold == 4

\* Largest system CPU id of the machine.
MaxSystemCPUId == 2

\* Number of tasks handed to the leaf while threads race on it.
MaxConcurrentTasks == 2

\* Largest polling budget (NANOS6_SCHEDULER_POLLING_ITER).
MaxPollingIterations == 1

\* ------------------------------------------------------------------------
\* State of the worker pool (ThreadManager)
\* ------------------------------------------------------------------------
VARIABLES
    mustExit,           \* ThreadManager::_mustExit
    totalThreads,       \* ThreadManager::_totalThreads
    shutdownThreads,    \* ThreadManager::_shutdownThreads
    mainController,     \* ThreadManager::_mainShutdownControllerThread (NoThread = nullptr)
    cpuController,      \* CPU::_shutdownControlerThread, per CPU (NoThread = nullptr)
    idleThreads,        \* ThreadManager::_idleThreads
    acceptsWork,        \* CPUActivation::acceptsWork(cpu), per CPU
    wpc,                \* per worker: where the worker thread is
    wcpu,               \* WorkerThread::_cpu
    cpuToBeResumedOn,   \* WorkerThread::_cpuToBeResumedOn (NoCPU = nullptr)
    wIsMain,            \* threadShutdownSequence: local isMainController
    wNext,              \* threadShutdownSequence: local next (being joined)
    ipc,                \* shutdown(): where the initiating thread is
    icpu,               \* shutdown(): index of the CPU of the first loop
    savedTotal,         \* shutdown(): local shutdownThreads
    participatingCPUs,  \* shutdown(): local deque participatingCPUs
    designations,       \* history: workers designated shutdown controller, in order
    joinedBy,           \* history: per worker, the threads that joined it, in order
    poppedBy,           \* history: per worker, who popped it from the idle deque
    initiatorJoins,     \* history: workers joined by the initiating thread, in order
    decrements,         \* history: per worker, decrements of _shutdownThreads
    idleAtStart         \* history: idle workers when shutdown() was called

shutVars == <<acceptsWork, mustExit, totalThreads, shutdownThreads, mainController, cpuController,
              idleThreads, wpc, wcpu, cpuToBeResumedOn, wIsMain, wNext, ipc, icpu,
              savedTotal, participatingCPUs, designations, joinedBy, poppedBy,
              initiatorJoins, decrements, idleAtStart>>

\* ------------------------------------------------------------------------
\* State of the execution workflow of one task (ExecutionWorkflow)
\* ------------------------------------------------------------------------
VARIABLES
    tin,                \* the task as submitted: accesses, target, wait clause, ...
    task                \* the task's mutable state, its workflow and its steps

wfVars == <<tin, task>>

\* ------------------------------------------------------------------------
\* State of one call of createDataCopyStep (ExecutionWorkflow)
\* ------------------------------------------------------------------------
VARIABLES
    copyArgs,           \* the access type, the source and target places, the cluster mode
    copyStep            \* the step the call returned ("none" before the call)

copyVars == <<copyArgs, copyStep>>

\* ------------------------------------------------------------------------
\* State of one call of setupTaskwaitWorkflow (ExecutionWorkflow)
\* ------------------------------------------------------------------------
VARIABLES
    fragment,           \* the taskwait fragment: access type, location, output location, ...
    tw                  \* the call, its workflow and its steps

twVars == <<fragment, tw>>

\* ------------------------------------------------------------------------
\* State of the scheduler and of one leaf of its tree (SchedulerInterface,
\* LeafScheduler)
\* ------------------------------------------------------------------------
VARIABLES
    schedulingPolicy,   \* SchedulerInterface::_schedulingPolicy (NANOS6_SCHEDULING_POLICY)
    fatalError,         \* the setting named by FatalErrorHandler when it aborts ("none")
    hostScheduler,      \* SchedulerInterface::_hostScheduler ("null" before construction)
    policy,             \* the policy the host scheduler was created with
    queue,              \* LeafScheduler::_queue, in arrival order
    pollingSlot,        \* LeafScheduler::_pollingSlot (NoTask = empty)
    leafIdle,           \* LeafScheduler::_idle
    queueThreshold,     \* LeafScheduler::_queueThreshold
    rebalance,          \* LeafScheduler::_rebalance
    nextTask,           \* the next task to become ready
    last,               \* history: the last call on the leaf and what it did
    phase,              \* history: "adding", "getting" or "other" (see AddingPhase)
    arrived,            \* history: tasks added locally during the "adding" phase
    out                 \* history: tasks returned by getTask during the "getting" phase

leafVars == <<schedulingPolicy, fatalError, hostScheduler, policy, queue, pollingSlot, leafIdle,
              queueThreshold, rebalance, nextTask, last, phase,
              arrived, out>>

\* ------------------------------------------------------------------------
\* State of the start-up of the CPU registry and of the worker pool
\* (CPUManager, ThreadManager)
\* ------------------------------------------------------------------------
VARIABLES
    computeNodes,       \* HardwareInfo::getComputeNodes(): _systemCPUId of each entry
    processCPUMask,     \* the affinity mask returned by sched_getaffinity
    cmpc,               \* CPUManager: "start", "preinitialized" or "initialized"
    cmCpus,             \* CPUManager::_cpus (NoNode = nullptr)
    cmTotalCPUs,        \* CPUManager::_totalCPUs
    idleCPUs,           \* CPUManager::_idleCPUs: the bits that are set
    cmWorkers,          \* the CPUs CPUManager::initialize started a thread on, in order
    tmpc,               \* ThreadManager: "start", "preinitialized", "initialized", "aborted"
    tmCpus,             \* ThreadManager::_cpus (NoNode = nullptr)
    tmTotalCPUs,        \* ThreadManager::_totalCPUs
    tmTotalThreads,     \* ThreadManager::_totalThreads
    tmWorkers           \* the CPUs ThreadManager::initialize created a worker on, in order

bootVars == <<computeNodes, processCPUMask, cmpc, cmCpus, cmTotalCPUs, idleCPUs, cmWorkers,
              tmpc, tmCpus, tmTotalCPUs, tmTotalThreads, tmWorkers>>

\* ------------------------------------------------------------------------
\* State of the threads that use the leaf concurrently: the worker of the
\* leaf's CPU and the threads that add tasks from elsewhere (LeafScheduler)
\* ------------------------------------------------------------------------
VARIABLES
    pollingIterations,  \* LeafScheduler::_pollingIterations (NANOS6_SCHEDULER_POLLING_ITER)
    lpc,                \* the worker of the leaf's CPU: where it is
    ltask,              \* getTask: local task; addTask: the argument task
    iterations,         \* getTask: local iterations
    ldoWait,            \* getTask: the argument doWait
    lbatch,             \* disable: local taskBatch
    ppc,                \* per producer: where it is in addTask or addTaskBatch
    pop,                \* per producer: the call it makes
    ptasks,             \* per producer: the argument task or what is left of taskBatch
    cpuIdle,            \* CPUManager::_idleCPUs: the bit of the leaf's CPU
    resumed,            \* history: resumeIdle was called since the leaf was marked idle
    inParent,           \* history: per task, times it was passed to the parent
    returned,           \* history: per task, times getTask returned it
    gt,                 \* history: what the current or last getTask call did
    dis                 \* history: what the current or last disable call did

raceVars == <<pollingIterations, lpc, ltask, iterations, ldoWait, lbatch, ppc, pop, ptasks,
              cpuIdle, resumed, inParent, returned, gt, dis>>

vars == <<shutVars, wfVars, leafVars, bootVars, raceVars, copyVars, twVars>>

\* The variables each subsystem leaves alone.
otherThanShutVars == <<wfVars, leafVars, bootVars, raceVars, copyVars, twVars>>
otherThanWfVars == <<shutVars, leafVars, bootVars, raceVars, copyVars, twVars>>
otherThanLeafVars == <<shutVars, wfVars, bootVars, raceVars, copyVars, twVars>>
otherThanBootVars == <<shutVars, wfVars, leafVars, raceVars, copyVars, twVars>>
otherThanCopyVars == <<shutVars, wfVars, leafVars, bootVars, raceVars, twVars>>
otherThanTwVars == <<shutVars, wfVars, leafVars, bootVars, raceVars, copyVars>>

NoThread == 0
NoCPU == 0
Initiator == 0

AllCPUs == 1 .. MaxCPUs
AllThreads == 1 .. MaxCPUs

\* The workers that exist: one per CPU of the affinity mask.
Workers == 1 .. totalThreads
CPUs == 1 .. totalThreads

\* ------------------------------------------------------------------------
\* ThreadManager::shutdown and ThreadManager::threadShutdownSequence
\* ------------------------------------------------------------------------

\* State after ThreadManager::initialize: every worker was created on its CPU
\* and resumed; none has parked in the idle deque yet.
ShutInit ==
    /\ mustExit = FALSE
    /\ totalThreads \in 1 .. MaxCPUs
    /\ shutdownThreads = 0
    /\ mainController = NoThread
    /\ cpuController = [c \in AllCPUs |-> NoThread]
    /\ idleThreads = {}
    /\ acceptsWork \in [AllCPUs -> BOOLEAN]
    /\ \A c \in AllCPUs : c > totalThreads => ~acceptsWork[c]
    /\ \E c \in AllCPUs : acceptsWork[c]
    /\ wpc = [t \in AllThreads |-> IF t <= totalThreads THEN "running" ELSE "none"]
    /\ wcpu = [t \in AllThreads |-> t]
    /\ cpuToBeResumedOn = [t \in AllThreads |-> NoCPU]
    /\ wIsMain = [t \in AllThreads |-> FALSE]
    /\ wNext = [t \in AllThreads |-> NoThread]
    /\ ipc = "running"
    /\ icpu = 0
    /\ savedTotal = 0
    /\ participatingCPUs = <<>>
    /\ designations = <<>>
    /\ joinedBy = [t \in AllThreads |-> <<>>]
    /\ poppedBy = [t \in AllThreads |-> <<>>]
    /\ initiatorJoins = <<>>
    /\ decrements = [t \in AllThreads |-> 0]
    /\ idleAtStart = 0

\* getIdleThread(cpu, true): the deque after the returned worker was popped.
IdleAfterNoPop(idle, t) == idle

IdleAfterPop(idle, t) == idle \ {t}

\* shutdown(), line 141: keep waiting for an idle worker of this CPU.
KeepWaitingNever(st) == FALSE

KeepWaitingForever(st) == TRUE

KeepWaiting(st) == st > 0

\* shutdown(), lines 152-154: the main shutdown controller after a designation.
MainAfterDesignation(main, t) == IF main = NoThread THEN t ELSE main

\* shutdown(), line 168: participatingCPUs.push_front(cpu).
PushBack(q, c) == Append(q, c)

PushFront(q, c) == <<c>> \o q

\* threadShutdownSequence, lines 237-244: the controller found no idle worker;
\* whether it leaves its loop.
ControllerDoneAlways(isMain, st) == TRUE

ControllerDoneInverted(isMain, st) == isMain \/ (st = 1)

ControllerDone(isMain, st) == (~isMain) \/ (st = 1)

\* A worker that found no task adds itself to the idle deque and parks.
BecomeIdle(t) ==
    /\ wpc[t] = "running"
    /\ wpc' = [wpc EXCEPT ![t] = "idle"]
    /\ idleThreads' = idleThreads \cup {t}
    /\ UNCHANGED otherThanShutVars
    /\ UNCHANGED <<acceptsWork, mustExit, totalThreads, shutdownThreads, mainController,
                   cpuController, wcpu, cpuToBeResumedOn, wIsMain, wNext, ipc, icpu,
                   savedTotal, participatingCPUs, designations, joinedBy, poppedBy,
                   initiatorJoins, decrements, idleAtStart>>

\* shutdown(), lines 120-122.
ShutdownBegin ==
    /\ ipc = "running"
    /\ mustExit' = TRUE
    /\ savedTotal' = totalThreads
    /\ shutdownThreads' = totalThreads
    /\ ipc' = "get"
    /\ icpu' = 1
    /\ idleAtStart' = Cardinality(idleThreads)
    /\ UNCHANGED otherThanShutVars
    /\ UNCHANGED <<acceptsWork, totalThreads, mainController, cpuController, idleThreads, wpc, wcpu,
                   cpuToBeResumedOn, wIsMain, wNext, participatingCPUs, designations,
                   joinedBy, poppedBy, initiatorJoins, decrements>>

\* The first loop of shutdown() moves on to the next CPU, or to the joins.
NextCPUpc(c) == IF c + 1 > totalThreads THEN "join" ELSE "get"

\* shutdown(), lines 137/143 and 146-169: getIdleThread(cpu, true); with a worker
\* in hand, designate it the CPU's shutdown controller, signal and resume it.
InitiatorGetIdle ==
    /\ ipc = "get"
    /\ acceptsWork[icpu]
    /\ \/ /\ idleThreads = {}
          /\ ipc' = "check"
          /\ UNCHANGED <<mainController, cpuController, idleThreads, wpc,
                         cpuToBeResumedOn, icpu, participatingCPUs, designations,
                         poppedBy>>
       \/ \E t \in idleThreads :
          /\ idleThreads' = IdleAfterPop(idleThreads, t)
          /\ poppedBy' = [poppedBy EXCEPT ![t] = Append(@, Initiator)]
          /\ cpuController' = [cpuController EXCEPT ![icpu] = t]
          /\ mainController' = MainAfterDesignation(mainController, t)
          /\ cpuToBeResumedOn' = [cpuToBeResumedOn EXCEPT ![t] = icpu]
          /\ wpc' = [wpc EXCEPT ![t] = "resumed"]
          /\ participatingCPUs' = PushFront(participatingCPUs, icpu)
          /\ designations' = Append(designations, t)
          /\ icpu' = icpu + 1
          /\ ipc' = NextCPUpc(icpu)
    /\ UNCHANGED otherThanShutVars
    /\ UNCHANGED <<acceptsWork, mustExit, totalThreads, shutdownThreads, wcpu, wIsMain, wNext,
                   savedTotal, joinedBy, initiatorJoins, decrements, idleAtStart>>

\* shutdown(), line 131: a CPU that does not accept work gets no controller.
InitiatorSkipCPU ==
    /\ ipc = "get"
    /\ ~acceptsWork[icpu]
    /\ ipc' = NextCPUpc(icpu)
    /\ icpu' = icpu + 1
    /\ UNCHANGED otherThanShutVars
    /\ UNCHANGED <<acceptsWork, mustExit, totalThreads, shutdownThreads, mainController,
                   cpuController, idleThreads, wpc, wcpu, cpuToBeResumedOn, wIsMain,
                   wNext, savedTotal, participatingCPUs, designations, joinedBy,
                   poppedBy, initiatorJoins, decrements, idleAtStart>>

\* shutdown(), line 141: no idle worker was found; wait (and retry) while
\* _shutdownThreads > 0, otherwise leave the CPU without a controller.
InitiatorCheck ==
    /\ ipc = "check"
    /\ IF KeepWaiting(shutdownThreads)
          THEN /\ ipc' = "get"
               /\ icpu' = icpu
          ELSE /\ ipc' = NextCPUpc(icpu)
               /\ icpu' = icpu + 1
    /\ UNCHANGED otherThanShutVars
    /\ UNCHANGED <<acceptsWork, mustExit, totalThreads, shutdownThreads, mainController,
                   cpuController, idleThreads, wpc, wcpu, cpuToBeResumedOn, wIsMain,
                   wNext, savedTotal, participatingCPUs, designations, joinedBy,
                   poppedBy, initiatorJoins, decrements, idleAtStart>>

\* shutdown(), lines 183-193: pthread_join of the next shutdown controller;
\* lines 195-197 once all are joined.
InitiatorJoin ==
    /\ ipc = "join"
    /\ IF participatingCPUs = <<>>
          THEN /\ ipc' = "returned"
               /\ UNCHANGED <<participatingCPUs, joinedBy, initiatorJoins>>
          ELSE LET t == cpuController[Head(participatingCPUs)] IN
               /\ wpc[t] = "exited"
               /\ joinedBy' = [joinedBy EXCEPT ![t] = Append(@, Initiator)]
               /\ initiatorJoins' = Append(initiatorJoins, t)
               /\ participatingCPUs' = Tail(participatingCPUs)
               /\ ipc' = ipc
    /\ UNCHANGED otherThanShutVars
    /\ UNCHANGED <<acceptsWork, mustExit, totalThreads, shutdownThreads, mainController,
                   cpuController, idleThreads, wpc, wcpu, cpuToBeResumedOn, wIsMain,
                   wNext, icpu, savedTotal, designations, poppedBy, decrements,
                   idleAtStart>>

\* A resumed worker updates _cpu from _cpuToBeResumedOn and enters
\* threadShutdownSequence, lines 203-210.
WorkerWake(t) ==
    /\ wpc[t] = "resumed"
    /\ wcpu' = [wcpu EXCEPT ![t] = cpuToBeResumedOn[t]]
    /\ IF cpuController[cpuToBeResumedOn[t]] = t
          THEN /\ wIsMain' = [wIsMain EXCEPT ![t] = (mainController = t)]
               /\ wpc' = [wpc EXCEPT ![t] = "loop"]
          ELSE /\ wIsMain' = wIsMain
               /\ wpc' = [wpc EXCEPT ![t] = "dec"]
    /\ UNCHANGED otherThanShutVars
    /\ UNCHANGED <<acceptsWork, mustExit, totalThreads, shutdownThreads, mainController,
                   cpuController, idleThreads, cpuToBeResumedOn, wNext, ipc, icpu,
                   savedTotal, participatingCPUs, designations, joinedBy, poppedBy,
                   initiatorJoins, decrements, idleAtStart>>

\* threadShutdownSequence, lines 216-231: the controller pops an idle worker,
\* signals and resumes it (and will join it), or finds none.
ControllerGetIdle(t) ==
    /\ wpc[t] = "loop"
    /\ \/ /\ idleThreads = {}
          /\ wpc' = [wpc EXCEPT ![t] = "noidle"]
          /\ UNCHANGED <<idleThreads, cpuToBeResumedOn, wNext, poppedBy>>
       \/ \E n \in idleThreads :
          /\ idleThreads' = IdleAfterPop(idleThreads, n)
          /\ poppedBy' = [poppedBy EXCEPT ![n] = Append(@, t)]
          /\ cpuToBeResumedOn' = [cpuToBeResumedOn EXCEPT ![n] = wcpu[t]]
          /\ wNext' = [wNext EXCEPT ![t] = n]
          /\ wpc' = [wpc EXCEPT ![n] = "resumed", ![t] = "join"]
    /\ UNCHANGED otherThanShutVars
    /\ UNCHANGED <<acceptsWork, mustExit, totalThreads, shutdownThreads, mainController,
                   cpuController, wcpu, wIsMain, ipc, icpu, savedTotal,
                   participatingCPUs, designations, joinedBy, initiatorJoins,
                   decrements, idleAtStart>>

\* threadShutdownSequence, line 233: pthread_join(next).
ControllerJoin(t) ==
    /\ wpc[t] = "join"
    /\ wpc[wNext[t]] = "exited"
    /\ joinedBy' = [joinedBy EXCEPT ![wNext[t]] = Append(@, t)]
    /\ wpc' = [wpc EXCEPT ![t] = "loop"]
    /\ UNCHANGED otherThanShutVars
    /\ UNCHANGED <<acceptsWork, mustExit, totalThreads, shutdownThreads, mainController,
                   cpuController, idleThreads, wcpu, cpuToBeResumedOn, wIsMain, wNext,
                   ipc, icpu, savedTotal, participatingCPUs, designations, poppedBy,
                   initiatorJoins, decrements, idleAtStart>>

\* threadShutdownSequence, lines 235-245: no idle worker for the moment.
ControllerNoIdle(t) ==
    /\ wpc[t] = "noidle"
    /\ wpc' = [wpc EXCEPT ![t] =
                  IF ControllerDone(wIsMain[t], shutdownThreads) THEN "dec" ELSE "loop"]
    /\ UNCHANGED otherThanShutVars
    /\ UNCHANGED <<acceptsWork, mustExit, totalThreads, shutdownThreads, mainController,
                   cpuController, idleThreads, wcpu, cpuToBeResumedOn, wIsMain, wNext,
                   ipc, icpu, savedTotal, participatingCPUs, designations, joinedBy,
                   poppedBy, initiatorJoins, decrements, idleAtStart>>

\* threadShutdownSequence, line 250: _shutdownThreads--.
WorkerDecrement(t) ==
    /\ wpc[t] = "dec"
    /\ shutdownThreads' = shutdownThreads - 1
    /\ decrements' = [decrements EXCEPT ![t] = @ + 1]
    /\ wpc' = [wpc EXCEPT ![t] = "exiting"]
    /\ UNCHANGED otherThanShutVars
    /\ UNCHANGED <<acceptsWork, mustExit, totalThreads, mainController, cpuController, idleThreads,
                   wcpu, cpuToBeResumedOn, wIsMain, wNext, ipc, icpu, savedTotal,
                   participatingCPUs, designations, joinedBy, poppedBy, initiatorJoins,
                   idleAtStart>>

\* threadShutdownSequence, line 251: currentThread->exit().
WorkerExit(t) ==
    /\ wpc[t] = "exiting"
    /\ wpc' = [wpc EXCEPT ![t] = "exited"]
    /\ UNCHANGED otherThanShutVars
    /\ UNCHANGED <<acceptsWork, mustExit, totalThreads, shutdownThreads, mainController,
                   cpuController, idleThreads, wcpu, cpuToBeResumedOn, wIsMain, wNext,
                   ipc, icpu, savedTotal, participatingCPUs, designations, joinedBy,
                   poppedBy, initiatorJoins, decrements, idleAtStart>>

ShutNext ==
    \/ ShutdownBegin
    \/ InitiatorGetIdle
    \/ InitiatorSkipCPU
    \/ InitiatorCheck
    \/ InitiatorJoin
    \/ \E t \in Workers : BecomeIdle(t)
    \/ \E t \in Workers : WorkerWake(t)
    \/ \E t \in Workers : ControllerGetIdle(t)
    \/ \E t \in Workers : ControllerJoin(t)
    \/ \E t \in Workers : ControllerNoIdle(t)
    \/ \E t \in Workers : WorkerDecrement(t)
    \/ \E t \in Workers : WorkerExit(t)


\* ------------------------------------------------------------------------
\* ExecutionWorkflow: steps, workflow construction and start
\* ------------------------------------------------------------------------

\* Device kinds, in the order of the rows and columns of _transfersMap.
DeviceTypes == {"host", "cuda", "opencl", "cluster"}

\* _transfersMap: the copy step of a (source type, target type) pair.
TransfersMapHostClusterOnly(sourceType, targetType) ==
    IF \/ (sourceType = "host" /\ targetType = "cluster")
       \/ (sourceType = "cluster" /\ targetType = "host")
    THEN "clusterCopy"
    ELSE "nullCopy"

TransfersMap(sourceType, targetType) ==
    IF \/ (sourceType = "host" /\ targetType = "cluster")
       \/ (sourceType = "cluster" /\ targetType = "host")
       \/ (sourceType = "cluster" /\ targetType = "cluster")
    THEN "clusterCopy"
    ELSE "nullCopy"

\* The memory nodes of the other cluster nodes.
RemoteNodes == {"otherNode", "thirdNode"}

\* Memory places: the host memory, the memory node of this cluster node, the
\* memory nodes of two other cluster nodes, a device memory, the directory
\* (uninitialised data), and "null" for a source that is not read satisfied.
MemoryPlaces ==
    {"null", "directory", "host", "cuda", "opencl", "thisNode"} \cup RemoteNodes

\* MemoryPlace::getType.
PlaceType(place) ==
    CASE place \in {"thisNode"} \cup RemoteNodes -> "cluster"
      [] place = "cuda" -> "cuda"
      [] place = "opencl" -> "opencl"
      [] OTHER -> "host"

AccessTypes == {"read", "write", "readwrite", "reduction", "commutative", "concurrent"}

\* createDataCopyStep, lines 51-58: accesses without data copies.
IsReductionAccess(type) == type = "reduction"

IsSpecialAccess(type) == type \in {"reduction", "commutative", "concurrent"}

\* createDataCopyStep, lines 76-80: the access is marked valid in this node's
\* namespace.
SetsValidNamespaceSelf(type, target) ==
    (~IsSpecialAccess(type)) /\ (PlaceType(target) = "host" \/ target = "thisNode")

\* createDataCopyStep: the kind of step created for an access.
CreateDataCopyStep(type, source, target, inClusterMode) ==
    IF IsSpecialAccess(type)
    THEN "nullCopy"
    ELSE IF source = "directory" /\ inClusterMode
         THEN "clusterCopy"
         ELSE TransfersMap(IF source = "null" THEN "host" ELSE PlaceType(source),
                           PlaceType(target))

\* The memory places createDataCopyStep accepts as target: neither nullptr
\* nor the directory (the assertions of lines 60-61).
TargetPlaces == MemoryPlaces \ {"null", "directory"}

NoCopyArgs ==
    [type |-> "read", source |-> "host", target |-> "host", inClusterMode |-> FALSE]

\* The arguments of one call of createDataCopyStep: any access type, any
\* source, any legal target; a memory node of another cluster node exists
\* only in cluster mode.
CopyInit ==
    /\ copyStep = "none"
    /\ copyArgs \in [ type : AccessTypes, source : MemoryPlaces, target : TargetPlaces,
                      inClusterMode : BOOLEAN ]
    /\ {copyArgs.source, copyArgs.target} \cap RemoteNodes # {} => copyArgs.inClusterMode

\* WorkflowBase::createDataCopyStep(sourceMemoryPlace, targetMemoryPlace,
\* region, access, isTaskwait), lines 38-99.
CallCreateDataCopyStep ==
    /\ copyStep = "none"
    /\ copyStep' = CreateDataCopyStep(copyArgs.type, copyArgs.source, copyArgs.target,
                                      copyArgs.inClusterMode)
    /\ UNCHANGED <<copyArgs, otherThanCopyVars>>

CopyNext == CallCreateDataCopyStep

\* createExecutionStep.
CreateExecutionStep(computeType) ==
    CASE computeType = "host" -> "hostExecution"
      [] computeType = "cluster" -> "clusterExecution"
      [] OTHER -> "fatal"

\* createDataReleaseStep.
CreateDataReleaseStep(isRemoteTask) ==
    IF isRemoteTask THEN "clusterDataRelease" ELSE "dataRelease"

\* The steps of a workflow.
CopyStep(i) == <<"copy", i>>
ExecutionStep == <<"execution", 0>>
ReleaseStep == <<"release", 0>>
NotificationStep == <<"notification", 0>>
TheTask == <<"task", 0>>
AllSteps == {CopyStep(i) : i \in 1 .. MaxAccesses}
               \cup {ExecutionStep, ReleaseStep, NotificationStep}

\* The accesses a task is submitted with, one of each behaviour of the copy
\* step: local data, uninitialised data of the directory, data of another
\* node that must be fetched (in one fragment or in two, from one node or
\* from another), data of another node that is already here, a weak access
\* that is not read satisfied; and accesses without data copies: a reduction
\* from each kind of source, a commutative and a concurrent one.
AccessSamples ==
    { [type |-> "read", source |-> "host", needsTransfer |-> FALSE, fragments |-> 1],
      [type |-> "readwrite", source |-> "directory", needsTransfer |-> FALSE, fragments |-> 1],
      [type |-> "readwrite", source |-> "otherNode", needsTransfer |-> TRUE, fragments |-> 1],
      [type |-> "read", source |-> "otherNode", needsTransfer |-> TRUE, fragments |-> 2],
      [type |-> "readwrite", source |-> "thirdNode", needsTransfer |-> TRUE, fragments |-> 2],
      [type |-> "read", source |-> "otherNode", needsTransfer |-> FALSE, fragments |-> 1],
      [type |-> "read", source |-> "null", needsTransfer |-> FALSE, fragments |-> 1],
      [type |-> "reduction", source |-> "otherNode", needsTransfer |-> TRUE, fragments |-> 1],
      [type |-> "reduction", source |-> "null", needsTransfer |-> FALSE, fragments |-> 1],
      [type |-> "reduction", source |-> "directory", needsTransfer |-> FALSE, fragments |-> 1],
      [type |-> "reduction", source |-> "host", needsTransfer |-> FALSE, fragments |-> 1],
      [type |-> "commutative", source |-> "host", needsTransfer |-> FALSE, fragments |-> 1],
      [type |-> "concurrent", source |-> "otherNode", needsTransfer |-> TRUE, fragments |-> 1] }

\* The target memory place of executeTask: this host, or another node for an
\* offloaded task.
TargetOf(t) == IF t.computeType = "host" THEN "host" ELSE "otherNode"

NumAccesses == Len(tin.accesses)

\* A task that is ready and was handed to a worker for the first time.
WfInit ==
    /\ tin \in [ accesses : UNION {[1 .. n -> AccessSamples] : n \in 0 .. MaxAccesses},
                 computeType : {"host", "cluster"},
                 inClusterMode : BOOLEAN,
                 mustDelayRelease : BOOLEAN,
                 isRemoteTask : BOOLEAN ]
    /\ tin.computeType = "cluster" => tin.inClusterMode
    /\ \A i \in 1 .. Len(tin.accesses) :
          tin.accesses[i].source \in {"directory"} \cup RemoteNodes => tin.inClusterMode
    /\ task = [ pc |-> "ready",
                workflow |-> "null",
                workflowAlive |-> FALSE,
                executionStep |-> "null",
                kind |-> [s \in AllSteps |-> "none"],
                countdown |-> [s \in AllSteps |-> 0],
                successors |-> [s \in AllSteps |-> <<>>],
                rootSteps |-> <<>>,
                validNamespaceSelf |-> [i \in 1 .. MaxAccesses |-> FALSE],
                fetching |-> {},
                fragments |-> [source \in RemoteNodes |-> 0],
                groups |-> [source \in RemoteNodes |-> <<>>],
                fetchCalls |-> <<>>,
                hasFinished |-> FALSE,
                released |-> FALSE,
                log |-> <<>> ]

Emit(r, event, what) == [r EXCEPT !.log = Append(@, <<event, what>>)]

\* Workflow::enforceOrder(a, b): b becomes a successor of a and waits for it.
EnforceOrder(r, a, b) ==
    [r EXCEPT !.successors[a] = Append(@, b), !.countdown[b] = @ + 1]

\* Workflow::addRootStep.
AddRootStep(r, s) == [r EXCEPT !.rootSteps = Append(@, s)]

\* ClusterDataCopyStep::requiresDataFetch: a fetch is needed when the data
\* must be transferred to this node.
RequiresDataFetch(r, s) ==
    /\ r.kind[s] = "clusterCopy"
    /\ tin.accesses[s[2]].needsTransfer
    /\ tin.computeType = "host"

\* Task::markAsFinished returns false only for a task with a wait clause.
MarkAsFinishedResults == IF tin.mustDelayRelease THEN BOOLEAN ELSE {TRUE}

\* The finaliser passed to unregisterTaskDataAccesses (lines 252-258 and
\* 315-322); released is the result of Task::markAsReleased.
DisposeAlways(released) == TRUE

DisposeIfReleased(released) == released

FinaliseTask(r, released) ==
    LET r1 == Emit(r, "taskFinished", TheTask)
        r2 == [Emit(r1, "markAsReleased", TheTask) EXCEPT !.released = released]
    IN IF DisposeIfReleased(released) THEN Emit(r2, "disposeTask", TheTask) ELSE r2

FinaliserWithoutTaskFinished(r, released) ==
    LET r2 == [Emit(r, "markAsReleased", TheTask) EXCEPT !.released = released]
    IN IF released THEN Emit(r2, "disposeTask", TheTask) ELSE r2

\* The finaliser of the notification callback, lines 315-322.
NotificationFinaliser(r, released) == FinaliseTask(r, released)

\* The finaliser of the return from a wait clause, lines 252-258.
TaskwaitReturnFinaliser(r, released) == FinaliseTask(r, released)

\* DataAccessRegistration::unregisterTaskDataAccesses: the accesses are
\* unregistered, the finaliser runs, then satisfiability is propagated to the
\* successors.
UnregisterBegin(r) == Emit(r, "unregisterTaskDataAccesses", TheTask)

PropagateSatisfiability(r) == Emit(r, "propagateSatisfiability", TheTask)

\* Notification callback, line 302: the accesses are unregistered when
\* markAsFinished returned true.
UnregisterAlways(finished) == TRUE

UnregisterIfFinished(finished) == finished

\* Notification callback, line 325: "delete workflow" is outside the if.
DeleteOnlyIfFinished(finished) == finished

DeleteWorkflowAfterCallback(finished) == TRUE

\* The notification callback of executeTask, lines 282-326; ctx.finished is
\* the result of markAsFinished, ctx.released that of markAsReleased.
NotificationCallback(r, ctx) ==
    LET r1 == Emit(r, "callback", TheTask)
        r2 == Emit(r1, "unregisterLocallyPropagatedTaskDataAccesses", TheTask)
        r3 == [Emit(r2, "markAsFinished", TheTask) EXCEPT
                  !.hasFinished = TRUE,
                  !.pc = IF ctx.finished THEN "finalised" ELSE "blocked"]
        r4 == IF UnregisterIfFinished(ctx.finished)
              THEN PropagateSatisfiability(
                       NotificationFinaliser(UnregisterBegin(r3), ctx.released))
              ELSE r3
    IN IF DeleteWorkflowAfterCallback(ctx.finished)
       THEN [Emit(r4, "deleteWorkflow", TheTask) EXCEPT !.workflowAlive = FALSE]
       ELSE r4

RECURSIVE StartStep(_, _, _), ReleaseList(_, _, _)

\* Step::releaseSuccessors: each successor loses a predecessor and starts
\* when none is left.
ReleaseList(q, r, ctx) ==
    IF q = <<>>
    THEN r
    ELSE LET s == Head(q)
             r1 == [r EXCEPT !.countdown[s] = @ - 1]
         IN ReleaseList(Tail(q),
                        IF r1.countdown[s] = 0 THEN StartStep(s, r1, ctx) ELSE r1,
                        ctx)

ReleaseSuccessors(s, r, ctx) == ReleaseList(r.successors[s], Emit(r, "done", s), ctx)

\* Step::start of each kind of step.
StartStep(s, r, ctx) ==
    CASE r.kind[s] = "hostExecution" ->
            IF ctx.worker
            THEN \* the body runs on this worker
                 ReleaseSuccessors(s,
                     [Emit(Emit(r, "start", s), "body", TheTask) EXCEPT
                         !.executionStep = "null", !.pc = "executed"],
                     ctx)
            ELSE \* not on a worker with the task: back to the scheduler
                 [r EXCEPT !.executionStep = "set", !.pc = "ready"]
      [] r.kind[s] = "clusterExecution" ->
            [Emit(r, "start", s) EXCEPT !.executionStep = "set", !.pc = "offloaded"]
      [] r.kind[s] = "notification" ->
            ReleaseSuccessors(s, NotificationCallback(Emit(r, "start", s), ctx), ctx)
      [] OTHER ->
            ReleaseSuccessors(s, Emit(r, "start", s), ctx)

\* WorkflowBase::start, line 158: dynamic_cast<ClusterDataCopyStep *>(step).
NeverClusterCopy(r, s) == FALSE

IsClusterCopy(r, s) == r.kind[s] = "clusterCopy"

\* ClusterDataCopyStep::getSourceMemoryPlace, getNumFragments.
SourceOf(s) == tin.accesses[s[2]].source

NumFragments(s) == tin.accesses[s[2]].fragments

\* WorkflowBase::start, lines 173-176: the step joins the group of its source.
AddToGroupCountingSteps(r, s) ==
    [r EXCEPT !.fragments[SourceOf(s)] = @ + 1,
              !.groups[SourceOf(s)] = Append(@, s)]

AddToGroup(r, s) ==
    [r EXCEPT !.fragments[SourceOf(s)] = @ + NumFragments(s),
              !.groups[SourceOf(s)] = Append(@, s)]

\* ClusterManager::fetchVector(nFragments, steps, source): the transfers of
\* the steps are issued.
FetchVector(r, nFragments, steps, source) ==
    [r EXCEPT !.fetchCalls = Append(@, [nFragments |-> nFragments, steps |-> steps,
                                        source |-> source]),
              !.fetching = @ \cup {steps[k] : k \in DOMAIN steps}]

RECURSIVE StartRoots(_, _, _)

\* WorkflowBase::start, lines 156-178: the loop over the root steps. A step
\* that is not a cluster copy is started. A cluster copy is asked
\* requiresDataFetch, which releases its successors itself when no fetch is
\* needed; when one is, the step joins the group of its source.
StartRoots(q, r, ctx) ==
    IF q = <<>>
    THEN r
    ELSE LET s == Head(q) IN
         StartRoots(Tail(q),
            IF ~IsClusterCopy(r, s)
            THEN StartStep(s, r, ctx)
            ELSE LET r1 == Emit(r, "requiresDataFetch", s) IN
                 IF RequiresDataFetch(r1, s)
                 THEN AddToGroup(r1, s)
                 ELSE ReleaseSuccessors(s, r1, ctx),
            ctx)

\* The orders in which a std::map keyed by MemoryPlace pointers can be
\* walked: any order of the places.
GroupOrders == { <<"otherNode", "thirdNode">>, <<"thirdNode", "otherNode">> }

RECURSIVE FetchGroups(_, _)

\* WorkflowBase::start, lines 180-191: one fetchVector per group.
FetchGroups(order, r) ==
    IF order = <<>>
    THEN r
    ELSE LET source == Head(order) IN
         FetchGroups(Tail(order),
            IF r.groups[source] # <<>>
            THEN FetchVector(r, r.fragments[source], r.groups[source], source)
            ELSE r)

\* WorkflowBase::start; fragments and groups are locals of the call.
WorkflowStart(r, ctx) ==
    LET r1 == FetchGroups(ctx.order, StartRoots(r.rootSteps, r, ctx))
        r2 == [r1 EXCEPT !.fragments = [source \in RemoteNodes |-> 0],
                         !.groups = [source \in RemoteNodes |-> <<>>]]
    IN IF r2.fetching # {} /\ r2.pc = "ready" THEN [r2 EXCEPT !.pc = "pending"] ELSE r2

RECURSIVE AddAccessSteps(_, _)

\* executeTask, lines 337-385: one data copy step per access, ordered before
\* the execution step and added as a root.
AddAccessSteps(r, i) ==
    IF i > NumAccesses
    THEN r
    ELSE LET a == tin.accesses[i]
             r1 == [r EXCEPT
                      !.kind[CopyStep(i)] =
                          CreateDataCopyStep(a.type, a.source, TargetOf(tin),
                                             tin.inClusterMode),
                      !.validNamespaceSelf[i] =
                          SetsValidNamespaceSelf(a.type, TargetOf(tin))]
         IN AddAccessSteps(
                AddRootStep(EnforceOrder(r1, CopyStep(i), ExecutionStep), CopyStep(i)),
                i + 1)

\* executeTask, lines 333-335: the release step and its edges.
BaseEdgesWithoutNotification == << <<ExecutionStep, ReleaseStep>> >>

BaseEdges == << <<ExecutionStep, ReleaseStep>>, <<ReleaseStep, NotificationStep>> >>

\* executeTask, line 387: executionStep->ready().
ExecutionAlwaysRoot(r) == TRUE

ExecutionNeverRoot(r) == FALSE

ExecutionIsReady(r) == r.countdown[ExecutionStep] = 0

RECURSIVE EnforceAll(_, _)

EnforceAll(r, edges) ==
    IF edges = <<>>
    THEN r
    ELSE EnforceAll(EnforceOrder(r, Head(edges)[1], Head(edges)[2]), Tail(edges))

\* executeTask, lines 273-392: the workflow of a task.
BuildWorkflow(r) ==
    LET r1 == [r EXCEPT
                 !.kind[ExecutionStep] = CreateExecutionStep(tin.computeType),
                 !.kind[NotificationStep] = "notification",
                 !.kind[ReleaseStep] = CreateDataReleaseStep(tin.isRemoteTask)]
        r2 == AddAccessSteps(EnforceAll(r1, BaseEdges), 1)
        r3 == IF ExecutionIsReady(r2)
              THEN AddRootStep(EnforceOrder(r2, ExecutionStep, NotificationStep),
                               ExecutionStep)
              ELSE r2
    IN [r3 EXCEPT !.workflow = "set", !.workflowAlive = TRUE, !.pc = "ready"]

\* executeTask, lines 217-259: the task returns from its wait clause.
ReturnFromTaskwaitUnblockedLast(r, ctx) ==
    LET r1 == Emit(r, "completeDelayedRelease", TheTask)
        r2 == Emit(r1, "handleExitTaskwait", TheTask)
        r3 == Emit(r2, "markAsUnblocked", TheTask)
    IN [PropagateSatisfiability(
            TaskwaitReturnFinaliser(UnregisterBegin(r3), ctx.released))
        EXCEPT !.pc = "finalised"]

ReturnFromTaskwait(r, ctx) ==
    LET r1 == Emit(r, "completeDelayedRelease", TheTask)
        r2 == Emit(r1, "markAsUnblocked", TheTask)
        r3 == Emit(r2, "handleExitTaskwait", TheTask)
    IN [PropagateSatisfiability(
            TaskwaitReturnFinaliser(UnregisterBegin(r3), ctx.released))
        EXCEPT !.pc = "finalised"]

\* executeTask(task, targetComputePlace, targetMemoryPlace), called by the
\* worker that got the task from the scheduler.
ExecuteTask ==
    /\ task.pc = "ready"
    /\ \E finished \in MarkAsFinishedResults, released \in BOOLEAN, order \in GroupOrders :
          LET ctx == [worker |-> TRUE, finished |-> finished, released |-> released,
                      order |-> order]
          IN task' =
               IF task.workflow # "null"
               THEN IF task.executionStep = "null"
                    THEN ReturnFromTaskwait(task, ctx)
                    ELSE StartStep(ExecutionStep, task, ctx)
               ELSE WorkflowStart(BuildWorkflow(task), ctx)
    /\ UNCHANGED <<tin, otherThanWfVars>>

\* The transfer layer completes the fetch of a cluster copy step; the step
\* releases its successors from the polling service, not from a worker that
\* holds the task.
TransferCompleted(s) ==
    /\ s \in task.fetching
    /\ \E finished \in MarkAsFinishedResults, released \in BOOLEAN :
          LET ctx == [worker |-> FALSE, finished |-> finished, released |-> released]
          IN task' = ReleaseSuccessors(s, [task EXCEPT !.fetching = @ \ {s}], ctx)
    /\ UNCHANGED <<tin, otherThanWfVars>>

\* The node the task was offloaded to reports that it finished: the
\* execution step releases its successors.
RemoteTaskFinished ==
    /\ task.pc = "offloaded"
    /\ \E finished \in MarkAsFinishedResults, released \in BOOLEAN :
          LET ctx == [worker |-> FALSE, finished |-> finished, released |-> released]
          IN task' = ReleaseSuccessors(ExecutionStep,
                        [task EXCEPT !.executionStep = "null", !.pc = "executed"], ctx)
    /\ UNCHANGED <<tin, otherThanWfVars>>

\* The last child of a task blocked in its wait clause finishes: the task is
\* handed to the scheduler again.
ChildrenFinished ==
    /\ task.pc = "blocked"
    /\ task' = [Emit(task, "childrenFinished", TheTask) EXCEPT !.pc = "ready"]
    /\ UNCHANGED <<tin, otherThanWfVars>>

WfNext ==
    \/ ExecuteTask
    \/ \E s \in AllSteps : TransferCompleted(s)
    \/ RemoteTaskFinished
    \/ ChildrenFinished

\* ------------------------------------------------------------------------
\* setupTaskwaitWorkflow: the workflow of a taskwait fragment
\* ------------------------------------------------------------------------

\* The output locations of a taskwait fragment: none, or the memory of the
\* node the task runs on.
OutputLocations == {"null", "host", "thisNode"}

NoFragment ==
    [ type |-> "read", location |-> "host", outputLocation |-> "null",
      inClusterMode |-> FALSE, fragments |-> 1 ]

\* setupTaskwaitWorkflow has not been called.
TwInit ==
    /\ tw = [ pc |-> "ready", workflow |-> "null", workflowAlive |-> FALSE,
              kind |-> "none", rootSteps |-> <<>>, successors |-> <<>>,
              fetchCalls |-> <<>>, log |-> <<>> ]
    /\ fragment \in [ type : AccessTypes, location : MemoryPlaces,
                      outputLocation : OutputLocations, inClusterMode : BOOLEAN,
                      fragments : 1 .. 2 ]
    /\ fragment.location \in {"directory"} \cup RemoteNodes => fragment.inClusterMode

TwEmit(w, event, what) == [w EXCEPT !.log = Append(@, <<event, what>>)]

\* setupTaskwaitWorkflow, line 418: no copy is needed.
NoCopyNeeded(targetLocation) == targetLocation = "null"

\* DataAccessRegistration::releaseTaskwaitFragment(task, region,
\* computePlace, hpDependencyData, doDelayedOperations).
ReleaseTaskwaitFragment(w, first) ==
    TwEmit(w, "releaseTaskwaitFragment", IF first THEN "first" ELSE "notFirst")

\* setupTaskwaitWorkflow, lines 432-461: the callback of the notification
\* step.
TaskwaitCallbackDeletesFirst(w) ==
    ReleaseTaskwaitFragment(
        [TwEmit(w, "deleteWorkflow", "workflow") EXCEPT !.workflowAlive = FALSE], TRUE)

TaskwaitCallback(w) ==
    [TwEmit(ReleaseTaskwaitFragment(w, TRUE), "deleteWorkflow", "workflow")
     EXCEPT !.workflowAlive = FALSE]

\* Step::releaseSuccessors of the copy step: its successor, the
\* notification step, starts and runs its callback.
TaskwaitCopyDone(w) ==
    [TwEmit(TaskwaitCallback(TwEmit(TwEmit(w, "done", "copy"), "start", "notification")),
            "done", "notification")
     EXCEPT !.pc = "done"]

\* The answers of ClusterDataCopyStep::requiresDataFetch for the copy of a
\* taskwait fragment: true, or false after releasing the successors.
TaskwaitFetchAnswers == BOOLEAN

\* WorkflowBase::start on the workflow of a taskwait fragment: its only root
\* is the copy step.
TaskwaitStart(w, requiresDataFetch) ==
    IF w.kind # "clusterCopy"
    THEN TaskwaitCopyDone(TwEmit(w, "start", "copy"))
    ELSE LET w1 == TwEmit(w, "requiresDataFetch", "copy") IN
         IF requiresDataFetch
         THEN [w1 EXCEPT !.fetchCalls =
                             Append(@, [nFragments |-> fragment.fragments,
                                        steps |-> w.rootSteps,
                                        source |-> fragment.location]),
                         !.pc = "pending"]
         ELSE TaskwaitCopyDone(w1)

\* setupTaskwaitWorkflow(task, taskwaitFragment, hpDependencyData).
SetupTaskwaitWorkflow ==
    /\ tw.pc = "ready"
    /\ \E requiresDataFetch \in TaskwaitFetchAnswers :
          tw' =
             IF NoCopyNeeded(fragment.outputLocation)
             THEN [ReleaseTaskwaitFragment(tw, FALSE) EXCEPT !.pc = "done"]
             ELSE TaskwaitStart(
                     [tw EXCEPT
                        !.workflow = "set",
                        !.workflowAlive = TRUE,
                        !.kind = CreateDataCopyStep(fragment.type, fragment.location,
                                                    fragment.outputLocation,
                                                    fragment.inClusterMode),
                        !.rootSteps = <<"copy">>,
                        !.successors = <<"notification">>],
                     requiresDataFetch)
    /\ UNCHANGED <<fragment, otherThanTwVars>>

\* The transfer layer completes the fetch of the copy step, which releases
\* its successors.
TaskwaitTransferCompleted ==
    /\ tw.pc = "pending"
    /\ tw' = TaskwaitCopyDone(tw)
    /\ UNCHANGED <<fragment, otherThanTwVars>>

TwNext ==
    \/ SetupTaskwaitWorkflow
    \/ TaskwaitTransferCompleted

\* ------------------------------------------------------------------------
\* SchedulerInterface: construction.  LeafScheduler: one leaf, its queue,
\* its polling slot and its parent
\* ------------------------------------------------------------------------

\* nullptr (Task *).
NoTask == 0

\* Tasks are numbered in the order in which they become ready.
Tasks == 1 .. MaxTasks

\* Values of NANOS6_SCHEDULING_POLICY: the two documented ones, the upper
\* case spelling the constructor also tests for, and a value that names no
\* policy.  "fifo" is also the value of the unset variable (line 17).
PolicyValues == {"fifo", "lifo", "LIFO", "random"}

\* SchedulerInterface::SchedulerInterface, lines 26-29.
LowerCaseLifoOnly(value) == IF value = "lifo" THEN "LIFO_POLICY" ELSE "FIFO_POLICY"

SchedulingPolicyOf(value) ==
    IF value = "LIFO" \/ value = "lifo" THEN "LIFO_POLICY" ELSE "FIFO_POLICY"

\* No call was made on the leaf yet.
NoCall ==
    [ op |-> "none", hasComputePlace |-> FALSE, arg |-> <<>>,
      slotBefore |-> NoTask, queueBefore |-> <<>>, threshold |-> 0,
      result |-> NoTask, enqueued |-> FALSE, elements |-> 0,
      overflow |-> FALSE, requested |-> 0, batch |-> <<>>, sizeAfterHandoff |-> 0 ]

\* The environment variable is read; nothing is constructed yet.  The leaf's
\* fields have the values its constructor gives them (lines 54-64).
LeafInit ==
    /\ schedulingPolicy \in PolicyValues
    /\ fatalError = "none"
    /\ hostScheduler = "null"
    /\ policy = "none"
    /\ queue = <<>>
    /\ pollingSlot = NoTask
    /\ leafIdle = FALSE
    /\ queueThreshold = 0
    /\ rebalance = FALSE
    /\ nextTask = 1
    /\ last = NoCall
    /\ phase = "adding"
    /\ arrived = <<>>
    /\ out = <<>>

\* SchedulerInterface::SchedulerInterface, lines 22-35: no value of the
\* policy setting makes the constructor fail.
ConstructScheduler ==
    /\ hostScheduler = "null"
    /\ policy' = SchedulingPolicyOf(schedulingPolicy)
    /\ hostScheduler' = "created"
    /\ UNCHANGED <<schedulingPolicy, fatalError, queue, pollingSlot, leafIdle, queueThreshold,
                   rebalance, nextTask, last, phase, arrived, out>>
    /\ UNCHANGED otherThanLeafVars

\* TreeSchedulerQueueInterface::addTask: the task is inserted; the call
\* returns the number of elements of the queue.
QueueAddTask(q, t) == Append(q, t)

\* TreeSchedulerQueueInterface::getTask: the oldest task under FIFO, the
\* newest under LIFO; nullptr when the queue is empty.
QueueGetTask(q, pol) ==
    IF q = <<>>
    THEN [task |-> NoTask, rest |-> q]
    ELSE IF pol = "LIFO_POLICY"
         THEN [task |-> q[Len(q)], rest |-> SubSeq(q, 1, Len(q) - 1)]
         ELSE [task |-> Head(q), rest |-> Tail(q)]

\* TreeSchedulerQueueInterface::getTaskBatch(n): up to n tasks, taken from
\* the end opposite to the one getTask dequeues from.
QueueGetTaskBatch(q, n, pol) ==
    LET k == IF n < Len(q) THEN n ELSE Len(q)
    IN IF pol = "LIFO_POLICY"
       THEN [batch |-> SubSeq(q, 1, k), rest |-> SubSeq(q, k + 1, Len(q))]
       ELSE [batch |-> SubSeq(q, Len(q) - k + 1, Len(q)), rest |-> SubSeq(q, 1, Len(q) - k)]

\* TreeSchedulerQueueInterface::addTaskBatch.
QueueAddTaskBatch(q, b) == q \o b

\* polling_slot_t::setTask: succeeds when the slot is empty.
SetTaskSucceeds(slot) == slot = NoTask

\* handleQueueOverflow, lines 40-44: the number of tasks asked of the queue.
HalfThreshold(th) == th \div 2

OverflowBatchSize(th) == IF th \div 2 = 0 THEN 1 ELSE th \div 2

\* addTask, lines 81 and 102: elements > _queueThreshold.
ReachesThreshold(elements, th) == elements >= th

ExceedsThreshold(elements, th) == elements > th

\* getTask, line 158: _queue->getSize() > (_queueThreshold * 1.5).
NeedsRebalanceAboveThreshold(size, th) == size > th

NeedsRebalance(size, th) == 2 * size > 3 * th

\* handleQueueOverflow: the batch taken from the queue; it is handed to the
\* parent (_parent->addTaskBatch) when it is not empty.
HandleQueueOverflow(q, th, pol) ==
    LET n == OverflowBatchSize(th)
        b == QueueGetTaskBatch(q, n, pol)
    IN [queue |-> b.rest, batch |-> b.batch, requested |-> n]

\* addTask(task, hasComputePlace, hint) of the next ready task.
AddTask(hasComputePlace) ==
    /\ hostScheduler = "created"
    /\ nextTask <= MaxTasks
    /\ hasComputePlace => ~leafIdle                       \* assert(!_idle), line 77
    /\ LET t == nextTask
           success == (~hasComputePlace) /\ SetTaskSucceeds(pollingSlot)
           enqueued == hasComputePlace \/ ~success
           q1 == IF enqueued THEN QueueAddTask(queue, t) ELSE queue
           elements == Len(q1)
           overflow == enqueued /\ ExceedsThreshold(elements, queueThreshold)
           h == HandleQueueOverflow(q1, queueThreshold, policy)
           adding == phase = "adding" /\ hasComputePlace /\ ~overflow
       IN /\ pollingSlot' = IF success THEN t ELSE pollingSlot
          /\ queue' = IF overflow THEN h.queue ELSE q1
          /\ last' = [ op |-> "addTask", hasComputePlace |-> hasComputePlace, arg |-> <<t>>,
                       slotBefore |-> pollingSlot, queueBefore |-> queue,
                       threshold |-> queueThreshold, result |-> NoTask,
                       enqueued |-> enqueued, elements |-> elements,
                       overflow |-> overflow,
                       requested |-> IF overflow THEN h.requested ELSE 0,
                       batch |-> IF overflow THEN h.batch ELSE <<>>,
                       sizeAfterHandoff |-> IF overflow THEN Len(h.queue) ELSE 0 ]
          /\ phase' = IF adding THEN "adding" ELSE "other"
          /\ arrived' = IF adding THEN Append(arrived, t) ELSE <<>>
          /\ out' = <<>>
    /\ rebalance' = FALSE
    /\ nextTask' = nextTask + 1
    /\ UNCHANGED <<schedulingPolicy, fatalError, hostScheduler, policy, leafIdle, queueThreshold>>
    /\ UNCHANGED otherThanLeafVars

\* addTaskBatch, lines 128-135: what is left of the batch for the queue.
WholeBatch(success, taskBatch) == taskBatch

BatchForQueue(success, taskBatch) ==
    IF success THEN SubSeq(taskBatch, 1, Len(taskBatch) - 1) ELSE taskBatch

\* addTaskBatch(parent, taskBatch) of the next n ready tasks.
AddTaskBatch(n) ==
    /\ hostScheduler = "created"
    /\ n >= 1                                         \* assert(taskBatch.size() > 0)
    /\ nextTask + n - 1 <= MaxTasks
    /\ LET taskBatch == [i \in 1 .. n |-> nextTask + i - 1]
           t == taskBatch[Len(taskBatch)]             \* taskBatch.back()
           success == SetTaskSucceeds(pollingSlot)
       IN /\ pollingSlot' = IF success THEN t ELSE pollingSlot
          /\ queue' = QueueAddTaskBatch(queue, BatchForQueue(success, taskBatch))
          /\ last' = [NoCall EXCEPT !.op = "addTaskBatch", !.arg = taskBatch,
                                    !.slotBefore = pollingSlot, !.queueBefore = queue,
                                    !.threshold = queueThreshold]
    /\ nextTask' = nextTask + n
    /\ phase' = "other"
    /\ arrived' = <<>>
    /\ out' = <<>>
    /\ UNCHANGED <<schedulingPolicy, fatalError, hostScheduler, policy, leafIdle, queueThreshold,
                   rebalance>>
    /\ UNCHANGED otherThanLeafVars

\* getTask, lines 147-151: the task of the polling slot is returned when
\* there is one.
TakesFromSlotIfQueueEmpty(slot, q) == slot # NoTask /\ q = <<>>

TakesFromSlot(slot, q) == slot # NoTask

\* getTask(doWait), called by the worker of the leaf's CPU.  When neither
\* the slot nor the queue has a task, the parent is asked (line 169); it may
\* hand the next ready task to the polling slot of the leaf before the leaf
\* looks at the slot again.
GetTask(doWait) ==
    /\ hostScheduler = "created"
    /\ \E served \in {NoTask} \cup ({nextTask} \cap Tasks) :
       LET fromSlot == TakesFromSlot(pollingSlot, queue)
           g == QueueGetTask(queue, policy)
           fromQueue == (~fromSlot) /\ g.task # NoTask
           overflow == /\ fromQueue
                       /\ rebalance
                       /\ NeedsRebalance(Len(g.rest), queueThreshold)
           h == HandleQueueOverflow(g.rest, queueThreshold, policy)
           asksParent == (~fromSlot) /\ ~fromQueue
           polled == IF pollingSlot # NoTask THEN pollingSlot ELSE served
           result == IF fromSlot THEN pollingSlot
                     ELSE IF fromQueue THEN g.task ELSE polled
           getting == /\ phase \in {"adding", "getting"}
                      /\ fromQueue
                      /\ ~overflow
       IN /\ asksParent \/ served = NoTask
          /\ pollingSlot' = IF fromSlot \/ asksParent THEN NoTask ELSE pollingSlot
          /\ queue' = IF fromQueue THEN (IF overflow THEN h.queue ELSE g.rest) ELSE queue
          /\ leafIdle' = (asksParent /\ result = NoTask)   \* lines 142-145 and 182-191
          /\ last' = [ op |-> "getTask", hasComputePlace |-> FALSE, arg |-> <<>>,
                       slotBefore |-> pollingSlot, queueBefore |-> queue,
                       threshold |-> queueThreshold, result |-> result,
                       enqueued |-> FALSE,
                       elements |-> IF fromQueue THEN Len(g.rest) ELSE 0,
                       overflow |-> overflow,
                       requested |-> IF overflow THEN h.requested ELSE 0,
                       batch |-> IF overflow THEN h.batch ELSE <<>>,
                       sizeAfterHandoff |-> IF overflow THEN Len(h.queue) ELSE 0 ]
          /\ phase' = IF getting THEN "getting" ELSE "other"
          /\ arrived' = IF getting THEN arrived ELSE <<>>
          /\ out' = IF getting THEN Append(out, result) ELSE <<>>
          /\ nextTask' = IF served # NoTask THEN nextTask + 1 ELSE nextTask
    /\ rebalance' = FALSE                              \* lines 149, 157 and 167
    /\ UNCHANGED <<schedulingPolicy, fatalError, hostScheduler, policy, queueThreshold>>
    /\ UNCHANGED otherThanLeafVars

\* updateQueueThreshold(queueThreshold), called by the parent.
UpdateQueueThreshold(th) ==
    /\ hostScheduler = "created"
    /\ th # queueThreshold
    /\ rebalance' = IF th < queueThreshold THEN TRUE ELSE rebalance
    /\ queueThreshold' = th
    /\ last' = [NoCall EXCEPT !.op = "updateQueueThreshold"]
    /\ phase' = IF phase = "adding" /\ arrived = <<>> THEN "adding" ELSE "other"
    /\ arrived' = <<>>
    /\ out' = <<>>
    /\ UNCHANGED <<schedulingPolicy, fatalError, hostScheduler, policy, queue, pollingSlot,
                   leafIdle, nextTask>>
    /\ UNCHANGED otherThanLeafVars

LeafNext ==
    \/ ConstructScheduler
    \/ \E hasComputePlace \in BOOLEAN : AddTask(hasComputePlace)
    \/ \E n \in 1 .. MaxTasks : AddTaskBatch(n)
    \/ \E doWait \in BOOLEAN : GetTask(doWait)
    \/ \E th \in 0 .. MaxThreshold : UpdateQueueThreshold(th)

\* ------------------------------------------------------------------------
\* LeafScheduler under concurrency: the worker of the leaf's CPU (getTask,
\* local addTask, disable) runs against threads of other CPUs that add
\* tasks (addTask without compute place, addTaskBatch) and against the
\* parent changing the threshold.  Every access to the queue, to the
\* polling slot or to a flag is one step; what runs under _globalLock is
\* one step.
\* ------------------------------------------------------------------------

\* The threads of other CPUs that hand tasks to the leaf.
Producers == {"p1", "p2"}

\* Thresholds the parent gives the leaf while threads race on it.
ConcurrentThresholds == {0, 2}

\* Sizes of the batches the parent hands down while threads race.
ConcurrentBatchSizes == {1, 2}

\* What a getTask call did, before any call.
NoGet ==
    [ called |-> FALSE, doWait |-> FALSE, foundIdle |-> FALSE, queueEmpty |-> FALSE,
      parentAsked |-> FALSE, reads |-> 0, lockedEmpty |-> FALSE, markedIdle |-> FALSE,
      rebalanceSeen |-> FALSE, fromQueue |-> FALSE, overflowed |-> FALSE,
      done |-> FALSE, result |-> NoTask ]

\* What a disable call did, before any call.
NoDisable ==
    [ called |-> FALSE, quiet |-> FALSE, wasIdle |-> FALSE, unidledChild |-> FALSE,
      unidledCPU |-> FALSE, queue0 |-> <<>>, slot0 |-> NoTask, next0 |-> 0,
      parentCalls |-> 0, batch |-> <<>>, done |-> FALSE ]

\* The leaf was constructed and the scheduler with it; the worker runs and
\* no other thread is inside the leaf.
ConcurrentInit ==
    /\ schedulingPolicy = "fifo"
    /\ fatalError = "none"
    /\ hostScheduler = "created"
    /\ policy = SchedulingPolicyOf(schedulingPolicy)
    /\ queue = <<>>
    /\ pollingSlot = NoTask
    /\ leafIdle = FALSE
    /\ queueThreshold = 0
    /\ rebalance = FALSE
    /\ nextTask = 1
    /\ last = NoCall
    /\ phase = "other"
    /\ arrived = <<>>
    /\ out = <<>>
    /\ pollingIterations \in 0 .. MaxPollingIterations

\* The threads' variables before any of them calls the leaf.
ThreadsInit ==
    /\ lpc = "ready"
    /\ ltask = NoTask
    /\ iterations = 0
    /\ ldoWait = FALSE
    /\ lbatch = <<>>
    /\ ppc = [p \in Producers |-> "idle"]
    /\ pop = [p \in Producers |-> "none"]
    /\ ptasks = [p \in Producers |-> <<>>]
    /\ cpuIdle = FALSE
    /\ resumed = FALSE
    /\ inParent = [t \in 1 .. MaxConcurrentTasks |-> 0]
    /\ returned = [t \in 1 .. MaxConcurrentTasks |-> 0]
    /\ gt = NoGet
    /\ dis = NoDisable

\* What no thread racing on the leaf changes.
concurrentFrame == <<shutVars, wfVars, bootVars, copyVars, twVars, schedulingPolicy, fatalError, hostScheduler,
                     policy, last, phase, arrived, out, pollingIterations>>

\* _parent->addTaskBatch(this, taskBatch): the tasks are now the parent's.
PassedToParent(counts, batch) ==
    [t \in DOMAIN counts |->
        counts[t] + Cardinality({i \in DOMAIN batch : batch[i] = t})]

\* return task, for a task that is not nullptr.
ReturnedTask(counts, t) == [counts EXCEPT ![t] = @ + 1]

\* getTask, lines 138-145.
GetTaskUnidle(doWait) ==
    /\ lpc = "ready"
    /\ lpc' = "slot"
    /\ ldoWait' = doWait
    /\ ltask' = NoTask
    /\ iterations' = 0
    /\ leafIdle' = FALSE
    /\ cpuIdle' = IF leafIdle THEN FALSE ELSE cpuIdle
    /\ gt' = [NoGet EXCEPT !.called = TRUE, !.doWait = doWait, !.foundIdle = leafIdle]
    /\ dis' = NoDisable
    /\ UNCHANGED <<queue, pollingSlot, queueThreshold, rebalance, nextTask, lbatch, ppc, pop,
                   ptasks, resumed, inParent, returned>>
    /\ UNCHANGED concurrentFrame

\* getTask, lines 147-151.
GetTaskSlot ==
    /\ lpc = "slot"
    /\ pollingSlot' = NoTask
    /\ IF pollingSlot # NoTask
       THEN /\ rebalance' = FALSE
            /\ lpc' = "ready"
            /\ ldoWait' = FALSE
            /\ returned' = ReturnedTask(returned, pollingSlot)
            /\ gt' = [gt EXCEPT !.done = TRUE, !.result = pollingSlot]
       ELSE /\ lpc' = "queue"
            /\ UNCHANGED <<rebalance, ldoWait, returned, gt>>
    /\ UNCHANGED <<queue, leafIdle, queueThreshold, nextTask, ltask, iterations, lbatch, ppc,
                   pop, ptasks, cpuIdle, resumed, inParent, dis>>
    /\ UNCHANGED concurrentFrame

\* getTask, lines 153-154.
GetTaskQueue ==
    /\ lpc = "queue"
    /\ LET g == QueueGetTask(queue, policy)
       IN /\ queue' = g.rest
          /\ ltask' = g.task
          /\ lpc' = IF g.task # NoTask THEN "rebalance" ELSE "parent"
          /\ gt' = [gt EXCEPT !.queueEmpty = (g.task = NoTask), !.fromQueue = (g.task # NoTask)]
    /\ UNCHANGED <<pollingSlot, leafIdle, queueThreshold, rebalance, nextTask, iterations,
                   ldoWait, lbatch, ppc, pop, ptasks, cpuIdle, resumed, inParent, returned, dis>>
    /\ UNCHANGED concurrentFrame

\* getTask, lines 155-164: the flag is taken with compare_exchange_strong
\* and the size compared; without overflow the task is returned.
GetTaskRebalance ==
    /\ lpc = "rebalance"
    /\ rebalance' = IF rebalance THEN FALSE ELSE rebalance
    /\ IF rebalance /\ NeedsRebalance(Len(queue), queueThreshold)
       THEN /\ lpc' = "overflow"
            /\ gt' = [gt EXCEPT !.rebalanceSeen = rebalance]
            /\ UNCHANGED <<returned, ltask, ldoWait>>
       ELSE /\ lpc' = "ready"
            /\ ltask' = NoTask
            /\ ldoWait' = FALSE
            /\ returned' = ReturnedTask(returned, ltask)
            /\ gt' = [gt EXCEPT !.rebalanceSeen = rebalance, !.done = TRUE, !.result = ltask]
    /\ UNCHANGED <<queue, pollingSlot, leafIdle, queueThreshold, nextTask, iterations,
                   lbatch, ppc, pop, ptasks, cpuIdle, resumed, inParent, dis>>
    /\ UNCHANGED concurrentFrame

\* getTask, lines 159 and 164: handleQueueOverflow, then return task.
GetTaskOverflow ==
    /\ lpc = "overflow"
    /\ LET h == HandleQueueOverflow(queue, queueThreshold, policy)
       IN /\ queue' = h.queue
          /\ inParent' = PassedToParent(inParent, h.batch)
    /\ lpc' = "ready"
    /\ ltask' = NoTask
    /\ ldoWait' = FALSE
    /\ returned' = ReturnedTask(returned, ltask)
    /\ gt' = [gt EXCEPT !.overflowed = TRUE, !.done = TRUE, !.result = ltask]
    /\ UNCHANGED <<pollingSlot, leafIdle, queueThreshold, rebalance, nextTask,
                   iterations, lbatch, ppc, pop, ptasks, cpuIdle, resumed, dis>>
    /\ UNCHANGED concurrentFrame

\* getTask, lines 167-169: the parent is asked; what it hands down arrives
\* through addTaskBatch (see BatchLock).
GetTaskParent ==
    /\ lpc = "parent"
    /\ rebalance' = FALSE
    /\ gt' = [gt EXCEPT !.parentAsked = TRUE]
    /\ lpc' = "poll"
    /\ UNCHANGED <<queue, pollingSlot, leafIdle, queueThreshold, nextTask, ltask, iterations,
                   ldoWait, lbatch, ppc, pop, ptasks, cpuIdle, resumed, inParent, returned, dis>>
    /\ UNCHANGED concurrentFrame

\* getTask, lines 171-180: whether the slot is read once more before the
\* locked recheck.
PollsSlotAtLeastOnce(doWait, it, budget) == IF doWait THEN it < budget \/ it = 0 ELSE TRUE

PollsSlot(doWait, it, budget) == IF doWait THEN it < budget ELSE TRUE

\* getTask, lines 171-180: one read of the slot in the busy-wait loop (or
\* the single read without doWait), or leaving the loop without a read.
GetTaskPoll ==
    /\ lpc = "poll"
    /\ IF PollsSlot(ldoWait, iterations, pollingIterations)
       THEN /\ pollingSlot' = NoTask
            /\ IF pollingSlot # NoTask
               THEN /\ lpc' = "ready"
                    /\ iterations' = 0
                    /\ ldoWait' = FALSE
                    /\ returned' = ReturnedTask(returned, pollingSlot)
                    /\ gt' = [gt EXCEPT !.reads = @ + 1, !.done = TRUE, !.result = pollingSlot]
               ELSE /\ lpc' = IF ldoWait /\ iterations + 1 < pollingIterations
                              THEN "poll" ELSE "recheck"
                    /\ iterations' = IF ldoWait /\ iterations + 1 < pollingIterations
                                     THEN iterations + 1 ELSE 0
                    /\ gt' = [gt EXCEPT !.reads = @ + 1]
                    /\ UNCHANGED <<returned, ldoWait>>
       ELSE /\ lpc' = "recheck"
            /\ UNCHANGED <<pollingSlot, iterations, ldoWait, returned, gt>>
    /\ UNCHANGED <<queue, leafIdle, queueThreshold, rebalance, nextTask, ltask, lbatch, ppc,
                   pop, ptasks, cpuIdle, resumed, inParent, dis>>
    /\ UNCHANGED concurrentFrame

\* getTask, lines 185-186: what _pollingSlot.getTask() returns under
\* _globalLock.
IgnoresSlotUnderLock(slot) == NoTask

ReadsSlotUnderLock(slot) == slot

\* getTask, lines 182-193, under _globalLock: the slot is read again; when
\* it is empty the leaf is marked idle and nullptr returned, and the worker
\* parks (it found no task).
GetTaskRecheck ==
    /\ lpc = "recheck"
    /\ ldoWait' = FALSE
    /\ LET t == ReadsSlotUnderLock(pollingSlot)
       IN IF t = NoTask
          THEN /\ leafIdle' = TRUE
               /\ cpuIdle' = TRUE
               /\ resumed' = FALSE
               /\ lpc' = "parked"
               /\ gt' = [gt EXCEPT !.lockedEmpty = (pollingSlot = NoTask),
                                   !.markedIdle = TRUE, !.done = TRUE, !.result = NoTask]
               /\ UNCHANGED <<returned, pollingSlot>>
          ELSE /\ lpc' = "ready"
               /\ pollingSlot' = NoTask
               /\ returned' = ReturnedTask(returned, t)
               /\ gt' = [gt EXCEPT !.done = TRUE, !.result = t]
               /\ UNCHANGED <<leafIdle, cpuIdle, resumed>>
    /\ UNCHANGED <<queue, queueThreshold, rebalance, nextTask, ltask, iterations, lbatch, ppc,
                   pop, ptasks, inParent, dis>>
    /\ UNCHANGED concurrentFrame

\* The parked worker runs again once ThreadManager::resumeIdle was called
\* for its CPU.
WorkerResumes ==
    /\ lpc = "parked"
    /\ resumed
    /\ lpc' = "ready"
    /\ UNCHANGED <<queue, pollingSlot, leafIdle, queueThreshold, rebalance, nextTask, ltask,
                   iterations, ldoWait, lbatch, ppc, pop, ptasks, cpuIdle, resumed, inParent,
                   returned, gt, dis>>
    /\ UNCHANGED concurrentFrame

\* addTask with hasComputePlace, lines 73-83 and 109, called by the worker
\* for a task that became ready on its CPU: the insertion; without
\* overflow also the store to _rebalance.
LocalAddTask ==
    /\ lpc = "ready"
    /\ ~leafIdle                                          \* assert(!_idle), line 77
    /\ nextTask <= MaxConcurrentTasks
    /\ queue' = QueueAddTask(queue, nextTask)
    /\ nextTask' = nextTask + 1
    /\ IF ExceedsThreshold(Len(queue) + 1, queueThreshold)
       THEN lpc' = "localOverflow" /\ UNCHANGED rebalance
       ELSE lpc' = "ready" /\ rebalance' = FALSE
    /\ gt' = NoGet
    /\ dis' = NoDisable
    /\ UNCHANGED <<pollingSlot, leafIdle, queueThreshold, ltask, iterations, ldoWait, lbatch,
                   ppc, pop, ptasks, cpuIdle, resumed, inParent, returned>>
    /\ UNCHANGED concurrentFrame

\* addTask with hasComputePlace, lines 82 and 109: handleQueueOverflow and
\* the store to _rebalance.
LocalOverflow ==
    /\ lpc = "localOverflow"
    /\ LET h == HandleQueueOverflow(queue, queueThreshold, policy)
       IN /\ queue' = h.queue
          /\ inParent' = PassedToParent(inParent, h.batch)
    /\ rebalance' = FALSE
    /\ lpc' = "ready"
    /\ UNCHANGED <<pollingSlot, leafIdle, queueThreshold, nextTask, ltask, iterations, ldoWait,
                   lbatch, ppc, pop, ptasks, cpuIdle, resumed, returned, gt, dis>>
    /\ UNCHANGED concurrentFrame

\* disable, lines 196-202, called by the worker when its CPU is taken out
\* of service.
DisableUnidle ==
    /\ lpc = "ready"
    /\ leafIdle' = FALSE
    /\ cpuIdle' = IF leafIdle THEN FALSE ELSE cpuIdle
    /\ dis' = [NoDisable EXCEPT !.called = TRUE,
                                !.quiet = (\A p \in Producers : ppc[p] = "idle"),
                                !.wasIdle = leafIdle,
                                !.unidledChild = leafIdle,
                                !.unidledCPU = leafIdle,
                                !.queue0 = queue, !.slot0 = pollingSlot, !.next0 = nextTask]
    /\ gt' = NoGet
    /\ lpc' = "drain"
    /\ UNCHANGED <<queue, pollingSlot, queueThreshold, rebalance, nextTask, ltask, iterations,
                   ldoWait, lbatch, ppc, pop, ptasks, resumed, inParent, returned>>
    /\ UNCHANGED concurrentFrame

\* disable, line 204: _queue->getTaskBatch(-1) takes every task.
DisableDrain ==
    /\ lpc = "drain"
    /\ LET b == QueueGetTaskBatch(queue, Len(queue), policy)
       IN /\ lbatch' = b.batch
          /\ queue' = b.rest
    /\ lpc' = "drainSlot"
    /\ UNCHANGED <<pollingSlot, leafIdle, queueThreshold, rebalance, nextTask, ltask,
                   iterations, ldoWait, ppc, pop, ptasks, cpuIdle, resumed, inParent, returned,
                   gt, dis>>
    /\ UNCHANGED concurrentFrame

\* disable, lines 206-210: the batch with the task of the polling slot.
WithoutPollingTask(taskBatch, pollingTask) == taskBatch

WithPollingTask(taskBatch, pollingTask) ==
    IF pollingTask # NoTask THEN Append(taskBatch, pollingTask) ELSE taskBatch

\* disable, lines 206-214: the task of the slot joins the batch, and a batch
\* that is not empty goes to the parent.
DisableSlot ==
    /\ lpc = "drainSlot"
    /\ pollingSlot' = NoTask
    /\ LET b == WithPollingTask(lbatch, pollingSlot)
       IN /\ inParent' = IF Len(b) > 0 THEN PassedToParent(inParent, b) ELSE inParent
          /\ dis' = [dis EXCEPT !.parentCalls = IF Len(b) > 0 THEN @ + 1 ELSE @,
                                !.batch = b, !.done = TRUE]
    /\ lbatch' = <<>>
    /\ lpc' = "ready"
    /\ UNCHANGED <<queue, leafIdle, queueThreshold, rebalance, nextTask, ltask, iterations,
                   ldoWait, ppc, pop, ptasks, cpuIdle, resumed, returned, gt>>
    /\ UNCHANGED concurrentFrame

\* addTask without compute place, lines 84-93, under _globalLock: the next
\* ready task is offered to the polling slot and _idle is read.
RemoteAddTaskLock(p) ==
    /\ ppc[p] = "idle"
    /\ nextTask <= MaxConcurrentTasks
    /\ LET success == SetTaskSucceeds(pollingSlot)
       IN /\ pollingSlot' = IF success THEN nextTask ELSE pollingSlot
          /\ ptasks' = [ptasks EXCEPT ![p] = IF success THEN <<>> ELSE <<nextTask>>]
          /\ ppc' = [ppc EXCEPT ![p] = IF success
                                       THEN (IF leafIdle THEN "resume" ELSE "clear")
                                       ELSE "enqueue"]
    /\ pop' = [pop EXCEPT ![p] = "addTask"]
    /\ nextTask' = nextTask + 1
    /\ UNCHANGED <<queue, leafIdle, queueThreshold, rebalance, lpc, ltask, iterations, ldoWait,
                   lbatch, cpuIdle, resumed, inParent, returned, gt, dis>>
    /\ UNCHANGED concurrentFrame

\* addTask, line 97, and addTaskBatch, line 131:
\* ThreadManager::resumeIdle((CPU *)_computePlace).
RemoteResumeIdle(p) ==
    /\ ppc[p] = "resume"
    /\ resumed' = TRUE
    /\ ppc' = [ppc EXCEPT ![p] = IF pop[p] = "addTask" THEN "clear" ELSE "enqueue"]
    /\ UNCHANGED <<queue, pollingSlot, leafIdle, queueThreshold, rebalance, nextTask, lpc,
                   ltask, iterations, ldoWait, lbatch, pop, ptasks, cpuIdle, inParent, returned,
                   gt, dis>>
    /\ UNCHANGED concurrentFrame

\* addTask, lines 100-102: the slot was full, the task goes to the queue.
RemoteEnqueue(p) ==
    /\ ppc[p] = "enqueue"
    /\ pop[p] = "addTask"
    /\ queue' = QueueAddTask(queue, ptasks[p][1])
    /\ ptasks' = [ptasks EXCEPT ![p] = <<>>]
    /\ ppc' = [ppc EXCEPT ![p] = IF ExceedsThreshold(Len(queue) + 1, queueThreshold)
                                 THEN "overflow" ELSE "clear"]
    /\ UNCHANGED <<pollingSlot, leafIdle, queueThreshold, rebalance, nextTask, lpc, ltask,
                   iterations, ldoWait, lbatch, pop, cpuIdle, resumed, inParent, returned,
                   gt, dis>>
    /\ UNCHANGED concurrentFrame

\* addTask, line 103: handleQueueOverflow.
RemoteOverflow(p) ==
    /\ ppc[p] = "overflow"
    /\ LET h == HandleQueueOverflow(queue, queueThreshold, policy)
       IN /\ queue' = h.queue
          /\ inParent' = PassedToParent(inParent, h.batch)
    /\ ppc' = [ppc EXCEPT ![p] = "clear"]
    /\ UNCHANGED <<pollingSlot, leafIdle, queueThreshold, rebalance, nextTask, lpc, ltask,
                   iterations, ldoWait, lbatch, pop, ptasks, cpuIdle, resumed, returned,
                   gt, dis>>
    /\ UNCHANGED concurrentFrame

\* addTask, lines 108-110: _rebalance = false, and the call returns.
RemoteClearRebalance(p) ==
    /\ ppc[p] = "clear"
    /\ rebalance' = FALSE
    /\ ppc' = [ppc EXCEPT ![p] = "idle"]
    /\ pop' = [pop EXCEPT ![p] = "none"]
    /\ UNCHANGED <<queue, pollingSlot, leafIdle, queueThreshold, nextTask, lpc, ltask,
                   iterations, ldoWait, lbatch, ptasks, cpuIdle, resumed, inParent, returned,
                   gt, dis>>
    /\ UNCHANGED concurrentFrame

\* addTaskBatch, lines 112-133, under _globalLock: the last task of a batch
\* of the next n ready tasks is offered to the slot, _idle is read, and the
\* task is popped from the batch when the slot took it.
BatchLock(p, n) ==
    /\ ppc[p] = "idle"
    /\ nextTask + n - 1 <= MaxConcurrentTasks
    /\ LET taskBatch == [i \in 1 .. n |-> nextTask + i - 1]
           success == SetTaskSucceeds(pollingSlot)
       IN /\ pollingSlot' = IF success THEN taskBatch[Len(taskBatch)] ELSE pollingSlot
          /\ ptasks' = [ptasks EXCEPT ![p] = BatchForQueue(success, taskBatch)]
          /\ ppc' = [ppc EXCEPT ![p] = IF success /\ leafIdle THEN "resume" ELSE "enqueue"]
    /\ pop' = [pop EXCEPT ![p] = "addTaskBatch"]
    /\ nextTask' = nextTask + n
    /\ UNCHANGED <<queue, leafIdle, queueThreshold, rebalance, lpc, ltask, iterations, ldoWait,
                   lbatch, cpuIdle, resumed, inParent, returned, gt, dis>>
    /\ UNCHANGED concurrentFrame

\* addTaskBatch, line 135: what is left of the batch goes to the queue, and
\* the call returns.
BatchEnqueue(p) ==
    /\ ppc[p] = "enqueue"
    /\ pop[p] = "addTaskBatch"
    /\ queue' = QueueAddTaskBatch(queue, ptasks[p])
    /\ ptasks' = [ptasks EXCEPT ![p] = <<>>]
    /\ ppc' = [ppc EXCEPT ![p] = "idle"]
    /\ pop' = [pop EXCEPT ![p] = "none"]
    /\ UNCHANGED <<pollingSlot, leafIdle, queueThreshold, rebalance, nextTask, lpc, ltask,
                   iterations, ldoWait, lbatch, cpuIdle, resumed, inParent, returned, gt, dis>>
    /\ UNCHANGED concurrentFrame

\* updateQueueThreshold, lines 221-228, called by the parent.
ParentUpdatesThreshold(th) ==
    /\ th # queueThreshold
    /\ rebalance' = IF th < queueThreshold THEN TRUE ELSE rebalance
    /\ queueThreshold' = th
    /\ UNCHANGED <<queue, pollingSlot, leafIdle, nextTask, lpc, ltask, iterations, ldoWait,
                   lbatch, ppc, pop, ptasks, cpuIdle, resumed, inParent, returned, gt, dis>>
    /\ UNCHANGED concurrentFrame

ConcurrentNext ==
    \/ \E doWait \in BOOLEAN : GetTaskUnidle(doWait)
    \/ GetTaskSlot
    \/ GetTaskQueue
    \/ GetTaskRebalance
    \/ GetTaskOverflow
    \/ GetTaskParent
    \/ GetTaskPoll
    \/ GetTaskRecheck
    \/ WorkerResumes
    \/ LocalAddTask
    \/ LocalOverflow
    \/ DisableUnidle
    \/ DisableDrain
    \/ DisableSlot
    \/ \E p \in Producers : RemoteAddTaskLock(p)
    \/ \E p \in Producers : RemoteResumeIdle(p)
    \/ \E p \in Producers : RemoteEnqueue(p)
    \/ \E p \in Producers : RemoteOverflow(p)
    \/ \E p \in Producers : RemoteClearRebalance(p)
    \/ \E p \in Producers : \E n \in ConcurrentBatchSizes : BatchLock(p, n)
    \/ \E p \in Producers : BatchEnqueue(p)
    \/ \E th \in ConcurrentThresholds : ParentUpdatesThreshold(th)

\* ------------------------------------------------------------------------
\* CPUManager and ThreadManager: preinitialize and initialize
\* ------------------------------------------------------------------------

\* nullptr (CPU *) in the _cpus vectors; a CPU object is named by its index
\* in the list of compute nodes (its virtual CPU id).
NoNode == -1

\* CPU_SETSIZE: the number of bits of a cpu_set_t.
CPU_SETSIZE == MaxSystemCPUId + 1

SystemCPUIds == 0 .. MaxSystemCPUId

Range(f) == {f[i] : i \in DOMAIN f}

RECURSIVE Ascending(_)

\* The elements of a set of numbers, in the order of a loop that counts up.
Ascending(S) ==
    IF S = {}
    THEN <<>>
    ELSE LET m == CHOOSE x \in S : \A y \in S : x <= y
         IN <<m>> \o Ascending(S \ {m})

\* HardwareInfo::getComputeNodes() lists the processing units in the order
\* of their virtual ids, each with its system id; the affinity mask holds
\* system ids of listed units.
BootInit ==
    /\ \E n \in 1 .. CPU_SETSIZE :
          /\ computeNodes \in [0 .. n - 1 -> SystemCPUIds]
          /\ \A i, j \in 0 .. n - 1 : computeNodes[i] = computeNodes[j] => i = j
    /\ processCPUMask \in (SUBSET Range(computeNodes)) \ {{}}
    /\ cmpc = "start"
    /\ cmCpus = <<>>
    /\ cmTotalCPUs = 0
    /\ idleCPUs = {}
    /\ cmWorkers = <<>>
    /\ tmpc = "start"
    /\ tmCpus = [s \in 0 .. CPU_SETSIZE - 1 |-> NoNode]
    /\ tmTotalCPUs = 0
    /\ tmTotalThreads = 0
    /\ tmWorkers = <<>>

\* CPUManager::preinitialize, line 28: the test on the CPU of index i.
CPUManagerRegisters(i) == computeNodes[i] \in processCPUMask

\* ThreadManager::preinitialize, line 50: the test on the CPU of index i.
ThreadManagerRegisters(i) == i \in processCPUMask

\* CPUManager::preinitialize.
CPUManagerPreinitialize ==
    /\ cmpc = "start"
    /\ cmCpus' = [i \in DOMAIN computeNodes |-> IF CPUManagerRegisters(i) THEN i ELSE NoNode]
    /\ cmTotalCPUs' = Cardinality({i \in DOMAIN computeNodes : CPUManagerRegisters(i)})
    /\ idleCPUs' = {}
    /\ cmpc' = "preinitialized"
    /\ UNCHANGED <<computeNodes, processCPUMask, cmWorkers, tmpc, tmCpus, tmTotalCPUs,
                   tmTotalThreads, tmWorkers>>
    /\ UNCHANGED otherThanBootVars

\* CPUManager::initialize: initializeThread is called with every CPU of
\* _cpus that is not nullptr.
CPUManagerInitialize ==
    /\ cmpc = "preinitialized"
    /\ tmpc # "start"
    /\ cmWorkers' = Ascending({i \in DOMAIN cmCpus : cmCpus[i] # NoNode})
    /\ cmpc' = "initialized"
    /\ UNCHANGED <<computeNodes, processCPUMask, cmCpus, cmTotalCPUs, idleCPUs, tmpc, tmCpus,
                   tmTotalCPUs, tmTotalThreads, tmWorkers>>
    /\ UNCHANGED otherThanBootVars

\* ThreadManager::preinitialize.
ThreadManagerPreinitialize ==
    /\ tmpc = "start"
    /\ tmCpus' = [s \in 0 .. CPU_SETSIZE - 1 |->
                     IF s \in DOMAIN computeNodes THEN s ELSE NoNode]
    /\ tmTotalCPUs' = Cardinality({i \in DOMAIN computeNodes : ThreadManagerRegisters(i)})
    /\ tmTotalThreads' = Cardinality({i \in DOMAIN computeNodes : ThreadManagerRegisters(i)})
    /\ tmpc' = "preinitialized"
    /\ UNCHANGED <<computeNodes, processCPUMask, cmpc, cmCpus, cmTotalCPUs, idleCPUs,
                   cmWorkers, tmWorkers>>
    /\ UNCHANGED otherThanBootVars

\* ThreadManager::getCPU(systemCPUId).
GetCPU(systemCPUId) == tmCpus[systemCPUId]

\* ThreadManager::initialize: a worker for every bit of the mask, on the CPU
\* getCPU returns for it.  When getCPU returns nullptr the assertion of
\* line 77 stops the process in a build with assertions; without them
\* cpu->initializeIfNeeded() dereferences nullptr, after which the process
\* either stops or goes on with a worker that has no CPU.
ThreadManagerInitialize ==
    /\ tmpc = "preinitialized"
    /\ LET ids == {s \in 0 .. CPU_SETSIZE - 1 : s \in processCPUMask}
           missing == {s \in ids : GetCPU(s) = NoNode}
       IN \/ /\ tmWorkers' = [k \in 1 .. Cardinality(ids) |-> GetCPU(Ascending(ids)[k])]
             /\ tmpc' = "initialized"
          \/ /\ missing # {}
             /\ LET first == CHOOSE s \in missing : \A x \in missing : s <= x
                    before == {s \in ids : s < first}
                IN tmWorkers' = [k \in 1 .. Cardinality(before) |->
                                    GetCPU(Ascending(before)[k])]
             /\ tmpc' = "aborted"
    /\ UNCHANGED <<computeNodes, processCPUMask, cmpc, cmCpus, cmTotalCPUs, idleCPUs,
                   cmWorkers, tmCpus, tmTotalCPUs, tmTotalThreads>>
    /\ UNCHANGED otherThanBootVars

BootNext ==
    \/ CPUManagerPreinitialize
    \/ CPUManagerInitialize
    \/ ThreadManagerPreinitialize
    \/ ThreadManagerInitialize

\* The workflow variables while another subsystem is checked.
WfParked ==
    /\ tin = [ accesses |-> <<>>, computeType |-> "host", inClusterMode |-> FALSE,
               mustDelayRelease |-> FALSE, isRemoteTask |-> FALSE ]
    /\ WfInit

\* The worker pool variables while another subsystem is checked.
ShutParked == totalThreads = 1 /\ ShutInit

\* The scheduler variables while another subsystem is checked.
LeafParked == schedulingPolicy = "fifo" /\ LeafInit

\* The start-up variables while another subsystem is checked.
BootParked ==
    /\ computeNodes = [i \in 0 .. 0 |-> 0]
    /\ processCPUMask = {0}
    /\ BootInit

\* The threads racing on the leaf while another subsystem is checked.
ThreadsParked == pollingIterations = 0 /\ ThreadsInit

\* The call of createDataCopyStep while another subsystem is checked.
CopyParked == copyArgs = NoCopyArgs /\ CopyInit

\* The taskwait fragment while another subsystem is checked.
TwParked == fragment = NoFragment /\ TwInit

ShutdownInit ==
    CopyParked /\ TwParked /\ WfParked /\ LeafParked /\ BootParked /\ ThreadsParked /\ ShutInit

WorkflowInit ==
    CopyParked /\ TwParked /\ ShutParked /\ LeafParked /\ BootParked /\ ThreadsParked /\ WfInit

LeafSchedulerInit ==
    CopyParked /\ TwParked /\ ShutParked /\ WfParked /\ BootParked /\ ThreadsParked /\ LeafInit

BootstrapInit ==
    CopyParked /\ TwParked /\ ShutParked /\ WfParked /\ LeafParked /\ ThreadsParked /\ BootInit

ConcurrentLeafInit ==
    CopyParked /\ TwParked /\ ShutParked /\ WfParked /\ BootParked /\ ThreadsInit /\ ConcurrentInit

ShutdownSpec == ShutdownInit /\ [][ShutNext]_vars

WorkflowSpec == WorkflowInit /\ [][WfNext]_vars

LeafSpec == LeafSchedulerInit /\ [][LeafNext]_vars

BootSpec == BootstrapInit /\ [][BootNext]_vars

ConcurrentLeafSpec == ConcurrentLeafInit /\ [][ConcurrentNext]_vars

DataCopyStepInit ==
    TwParked /\ ShutParked /\ WfParked /\ LeafParked /\ BootParked /\ ThreadsParked /\ CopyInit

TaskwaitInit ==
    CopyParked /\ ShutParked /\ WfParked /\ LeafParked /\ BootParked /\ ThreadsParked /\ TwInit

TaskwaitSpec == TaskwaitInit /\ [][TwNext]_vars

DataCopyStepSpec == DataCopyStepInit /\ [][CopyNext]_vars

\* The shutdown under fair scheduling: the initiating thread and every
\* worker thread keep being scheduled (their loops yield), and a worker
\* that runs finds no task in the end and parks in the idle deque.
ShutdownFairness ==
    /\ WF_vars(ShutdownBegin)
    /\ WF_vars(InitiatorGetIdle)
    /\ WF_vars(InitiatorSkipCPU)
    /\ WF_vars(InitiatorCheck)
    /\ WF_vars(InitiatorJoin)
    /\ \A t \in AllThreads :
          /\ WF_vars(BecomeIdle(t))
          /\ WF_vars(WorkerWake(t))
          /\ WF_vars(ControllerGetIdle(t))
          /\ WF_vars(ControllerJoin(t))
          /\ WF_vars(ControllerNoIdle(t))
          /\ WF_vars(WorkerDecrement(t))
          /\ WF_vars(WorkerExit(t))

FairShutdownSpec == ShutdownInit /\ [][ShutNext]_vars /\ ShutdownFairness

\* ------------------------------------------------------------------------
\* Properties of the shutdown collective
\* ------------------------------------------------------------------------

Last(q) == q[Len(q)]

AllAcceptAllIdle ==
    /\ \A c \in CPUs : acceptsWork[c]
    /\ idleAtStart = totalThreads

\* C1: when ThreadManager::shutdown returns, _shutdownThreads == 0 and
\* _totalThreads has the value it had when shutdown was called (the assertions
\* of lines 173 and 196-197 hold), for every number of workers and every
\* interleaving of the initiating thread, the controllers and the workers.
C1_ShutdownAssertionsHold ==
    ipc = "returned" =>
        /\ shutdownThreads = 0
        /\ totalThreads = savedTotal
        /\ mainController # NoThread

\* A shutdown that returned although a worker was not yet idle when it began
\* and a CPU took no part.
C1_Witness ==
    /\ ipc = "returned"
    /\ idleAtStart < totalThreads
    /\ Len(designations) < totalThreads
    /\ totalThreads >= 2

\* C2: when shutdown returns every worker has exited and was joined exactly
\* once: a shutdown controller by the initiating thread, any other worker by
\* the controller that popped it from the idle deque; no worker is ever joined
\* by two threads.
C2_EveryWorkerJoinedOnce ==
    /\ \A t \in Workers : Len(joinedBy[t]) <= 1
    /\ ipc = "returned" =>
          \A t \in Workers :
             /\ wpc[t] = "exited"
             /\ Len(poppedBy[t]) = 1
             /\ joinedBy[t] = poppedBy[t]
             /\ (joinedBy[t] = <<Initiator>>) <=> (\E c \in CPUs : cpuController[c] = t)

\* A returned shutdown with a controller joined by the initiating thread and a
\* worker joined by a controller.
C2_Witness ==
    /\ ipc = "returned"
    /\ \E t \in Workers : joinedBy[t] = <<Initiator>>
    /\ \E t \in Workers : \E u \in Workers : joinedBy[t] = <<u>>

\* C3 as stated: with N CPUs accepting work and N idle workers, exactly N
\* shutdown-controller designations happen.
C3_ExactlyOneDesignationPerCPU ==
    (ipc = "returned" /\ AllAcceptAllIdle) => Len(designations) = totalThreads

\* C3 as amended: at most one designation per CPU that accepts work, each of
\* a different worker, and at least one once the first loop of shutdown is
\* over; a CPU is left without controller when the controllers already
\* running took the idle workers.
C3_AtMostOneDesignationPerCPU ==
    /\ Len(designations) <= Cardinality({c \in CPUs : acceptsWork[c]})
    /\ Len(designations) = Cardinality({c \in CPUs : cpuController[c] # NoThread})
    /\ \A i, j \in 1 .. Len(designations) :
          designations[i] = designations[j] => i = j
    /\ ipc \in {"join", "returned"} => Len(designations) >= 1

\* N CPUs accept work, N workers were idle, and fewer than N were designated.
C3_Witness ==
    /\ ipc = "returned"
    /\ AllAcceptAllIdle
    /\ totalThreads >= 2
    /\ Len(designations) < totalThreads

\* C4: the main shutdown controller is the first worker designated, it is
\* never re-assigned, and it is the last thread the initiating thread joins;
\* with a single CPU the only worker is the main shutdown controller.
C4_MainControllerFirstAndJoinedLast ==
    /\ (mainController # NoThread) <=> (designations # <<>>)
    /\ designations # <<>> => mainController = designations[1]
    /\ ipc = "returned" =>
          /\ initiatorJoins # <<>>
          /\ Last(initiatorJoins) = mainController
          /\ Len(initiatorJoins) = Len(designations)
    /\ (ipc = "returned" /\ totalThreads = 1) => mainController = 1

\* A returned shutdown in which the initiating thread joined several
\* controllers.
C4_Witness ==
    /\ ipc = "returned"
    /\ Len(initiatorJoins) >= 2
    /\ Last(initiatorJoins) = designations[1]

\* ------------------------------------------------------------------------
\* Properties of the execution workflow and of the finalisation
\* ------------------------------------------------------------------------

Positions(event, what) == {i \in 1 .. Len(task.log) : task.log[i] = <<event, what>>}

Count(event) == Cardinality(Positions(event, TheTask))

Happened(event, what) == Positions(event, what) # {}

\* Every occurrence of the second event has an earlier occurrence of the first.
Precedes(e1, w1, e2, w2) ==
    \A j \in Positions(e2, w2) : \E i \in Positions(e1, w1) : i < j

ViaTaskwaitReturn == Happened("handleExitTaskwait", TheTask)

\* C5 as stated: once the finalisation of a task has completed, disposeTask
\* was called exactly once for it.
C5_DisposedExactlyOnce ==
    /\ Count("disposeTask") <= 1
    /\ task.pc = "finalised" => Count("disposeTask") = 1

\* C5 as amended: disposeTask is never called twice; once the finalisation
\* has completed it was called exactly once if markAsReleased returned true
\* and not at all if it returned false; it is not called before.
C5_DisposedOnceIffReleased ==
    /\ Count("disposeTask") <= 1
    /\ task.pc = "finalised" =>
          Count("disposeTask") = (IF task.released THEN 1 ELSE 0)
    /\ task.pc # "finalised" => Count("disposeTask") = 0

\* A task disposed on its return from a wait clause.
C5_Witness ==
    /\ task.pc = "finalised"
    /\ ViaTaskwaitReturn
    /\ Count("disposeTask") = 1

\* C6: markAsFinished precedes markAsReleased, which precedes disposeTask, on
\* the notification path and on the return from a wait clause; a disposed
\* task is released and has finished; a task is released at most once.
C6_FinishedReleasedDisposedInOrder ==
    /\ Precedes("markAsFinished", TheTask, "markAsReleased", TheTask)
    /\ Precedes("markAsReleased", TheTask, "disposeTask", TheTask)
    /\ Count("disposeTask") > 0 => (task.released /\ task.hasFinished)
    /\ task.released => task.hasFinished
    /\ Count("markAsReleased") <= 1
    /\ Count("markAsFinished") <= 1

\* A task released and disposed by its notification callback.
C6_Witness ==
    /\ task.pc = "finalised"
    /\ ~ViaTaskwaitReturn
    /\ task.released
    /\ Count("disposeTask") = 1

C8_StepsStartAfterPredecessors ==
    /\ Happened("start", ExecutionStep) =>
          \A i \in 1 .. NumAccesses :
             Precedes("done", CopyStep(i), "start", ExecutionStep)
    /\ Happened("body", TheTask) =>
          \A i \in 1 .. NumAccesses : Precedes("done", CopyStep(i), "body", TheTask)
    /\ Precedes("done", ExecutionStep, "start", ReleaseStep)
    /\ Precedes("done", ReleaseStep, "start", NotificationStep)
    /\ \A s \in AllSteps : Cardinality(Positions("start", s)) <= 1
    /\ Cardinality(Positions("body", TheTask)) <= 1

\* A workflow with a fetched cluster copy that ran up to its notification.
C8_Witness ==
    /\ Happened("start", NotificationStep)
    /\ \E i \in 1 .. NumAccesses :
          /\ RequiresDataFetch(task, CopyStep(i))
          /\ Happened("done", CopyStep(i))

\* The steps that have the notification step as successor.
NotificationPredecessors ==
    {s \in AllSteps : \E k \in 1 .. Len(task.successors[s]) :
                         task.successors[s][k] = NotificationStep}

\* C9: the notification callback runs at most once, and exactly once when the
\* execution step has completed, also for a task without data accesses, whose
\* notification step has an edge from the execution step and one from the
\* release step.
C9_NotificationCallbackOnce ==
    /\ Count("callback") <= 1
    /\ Happened("done", ExecutionStep) => Count("callback") = 1
    /\ Count("callback") = 1 => Happened("done", ExecutionStep)
    /\ (task.workflow = "set" /\ NumAccesses = 0) =>
          NotificationPredecessors = {ExecutionStep, ReleaseStep}
    /\ (task.workflow = "set" /\ NumAccesses > 0) =>
          NotificationPredecessors = {ReleaseStep}

\* A task without accesses whose callback ran.
C9_Witness ==
    /\ NumAccesses = 0
    /\ NotificationPredecessors = {ExecutionStep, ReleaseStep}
    /\ Count("callback") = 1

\* C10 as stated: while the task waits for its children after markAsFinished
\* returned false, its workflow has not been deleted.
C10_WorkflowKeptWhileBlocked ==
    task.pc = "blocked" => task.workflowAlive

\* C10 as amended: the workflow is deleted exactly once, at the end of the
\* notification callback, also when markAsFinished returned false; the task
\* then keeps only the dangling workflow pointer, and the return from the
\* wait clause neither deletes nor recreates the workflow.
C10_WorkflowDeletedByCallback ==
    /\ Count("deleteWorkflow") <= 1
    /\ Count("callback") = 1 => (Count("deleteWorkflow") = 1 /\ ~task.workflowAlive)
    /\ task.pc = "blocked" => (task.workflow = "set" /\ ~task.workflowAlive)
    /\ ViaTaskwaitReturn => (task.workflow = "set" /\ ~task.workflowAlive)

\* A task blocked in its wait clause whose workflow is already deleted.
C10_Witness ==
    /\ task.pc = "blocked"
    /\ task.workflow = "set"
    /\ ~task.workflowAlive

\* ------------------------------------------------------------------------
\* Properties of the leaf scheduler and of the scheduler's construction
\* ------------------------------------------------------------------------

\* C11: a getTask call that finds a task in the polling slot returns that
\* task and leaves the queue as it was, whatever the queue holds; getTask
\* takes a task from the queue only when it found the slot empty.
C11_PollingSlotWinsOverQueue ==
    last.op = "getTask" =>
       /\ last.slotBefore # NoTask =>
             /\ last.result = last.slotBefore
             /\ queue = last.queueBefore
             /\ pollingSlot = NoTask
       /\ queue # last.queueBefore => last.slotBefore = NoTask

\* getTask returned the task of the slot although the queue held tasks.
C11_Witness ==
    /\ last.op = "getTask"
    /\ last.slotBefore # NoTask
    /\ Len(last.queueBefore) >= 2
    /\ last.result = last.slotBefore
    /\ queue = last.queueBefore

C13_OverflowIffAboveThreshold ==
    (last.op = "addTask" /\ last.enqueued) =>
       /\ last.elements = Len(last.queueBefore) + 1
       /\ last.overflow <=> (last.elements > last.threshold)
       /\ last.elements = last.threshold => Len(queue) = last.elements
       /\ last.overflow =>
             /\ last.requested = (IF last.threshold \div 2 >= 1
                                  THEN last.threshold \div 2 ELSE 1)
             /\ last.elements > last.requested => Len(last.batch) = last.requested
       /\ (last.threshold = 4 /\ last.elements = 5) =>
             /\ Len(last.batch) = 2
             /\ Len(queue) = 3

\* The fifth local addTask on a leaf with threshold 4.
C13_Witness ==
    /\ last.op = "addTask"
    /\ last.hasComputePlace
    /\ last.threshold = 4
    /\ last.queueBefore = <<1, 2, 3, 4>>
    /\ last.arg = <<5>>
    /\ last.overflow
    /\ Len(last.batch) = 2

\* C14: addTaskBatch of a batch B on a leaf with an empty polling slot leaves
\* the last task of B in the slot and appends the others, in order, to the
\* queue; with a full slot the slot keeps its task and all of B is appended.
C14_BatchTailToSlot ==
    last.op = "addTaskBatch" =>
       LET B == last.arg
       IN /\ B # <<>>
          /\ IF last.slotBefore = NoTask
             THEN /\ pollingSlot = B[Len(B)]
                  /\ queue = last.queueBefore \o SubSeq(B, 1, Len(B) - 1)
             ELSE /\ pollingSlot = last.slotBefore
                  /\ queue = last.queueBefore \o B

\* A batch of three tasks arrived at a leaf with an empty slot and a queue
\* that already held tasks.
C14_Witness ==
    /\ last.op = "addTaskBatch"
    /\ last.slotBefore = NoTask
    /\ Len(last.arg) = 3
    /\ last.queueBefore # <<>>
    /\ pollingSlot = last.arg[3]

Reverse(s) == [i \in 1 .. Len(s) |-> s[Len(s) + 1 - i]]

Malformed(value) == value \notin {"fifo", "lifo", "FIFO", "LIFO"}

\* C16 as stated: with a malformed scheduling-policy value no scheduler is
\* created, and the constructor ends in an abort whose diagnostic names the
\* setting.
C16_MalformedPolicyAborts ==
    Malformed(schedulingPolicy) =>
       /\ hostScheduler = "null"
       /\ policy # "none" => fatalError = "NANOS6_SCHEDULING_POLICY"

\* ------------------------------------------------------------------------
\* Properties of the start-up of the CPU registry and of the worker pool
\* ------------------------------------------------------------------------

\* The enabled CPUs: the compute nodes whose system id is in the mask.
EnabledCPUs == {i \in DOMAIN computeNodes : computeNodes[i] \in processCPUMask}

WorkersOn(i) == {k \in 1 .. Len(tmWorkers) : tmWorkers[k] = i}

\* C17 as stated: once ThreadManager::initialize has run (it returned, or it
\* stopped the process), every enabled CPU has exactly one worker, no other
\* CPU has one, and the number of workers created is the _totalThreads that
\* preinitialize computed.
C17_OneWorkerPerEnabledCPU ==
    tmpc \in {"initialized", "aborted"} =>
       /\ \A i \in EnabledCPUs : Cardinality(WorkersOn(i)) = 1
       /\ \A k \in 1 .. Len(tmWorkers) : tmWorkers[k] \in EnabledCPUs
       /\ Len(tmWorkers) = tmTotalThreads

\* C18 as stated: after preinitialize each manager has registered exactly
\* the compute nodes whose system id is in the mask, so that both count the
\* same CPUs; no CPU is marked idle; the counts never change afterwards.
C18_RegisteredIffInMask ==
    /\ cmpc # "start" =>
          /\ \A i \in DOMAIN computeNodes : (cmCpus[i] # NoNode) <=> (i \in EnabledCPUs)
          /\ cmTotalCPUs = Cardinality(EnabledCPUs)
          /\ idleCPUs = {}
    /\ tmpc # "start" =>
          /\ tmTotalCPUs = Cardinality(EnabledCPUs)
          /\ tmTotalThreads = Cardinality(EnabledCPUs)
    /\ (cmpc # "start" /\ tmpc # "start") => cmTotalCPUs = tmTotalCPUs

\* ------------------------------------------------------------------------
\* Properties of the construction of the workflow
\* ------------------------------------------------------------------------

InRootSteps(s) == \E k \in 1 .. Len(task.rootSteps) : task.rootSteps[k] = s

\* Step::start was called on the execution step: it started, or, called on
\* a thread that does not hold the task, it handed the task back to the
\* scheduler with its execution step set.
ExecutionStepStarted == Happened("start", ExecutionStep) \/ task.executionStep = "set"

\* C19: executeTask adds the execution step as a root step exactly when the
\* task has no data access; with data accesses the execution step waits for
\* one release per copy step and is started only when all of them are done.
C19_ExecutionRootIffNoAccesses ==
    task.workflow = "set" =>
       /\ InRootSteps(ExecutionStep) <=> (NumAccesses = 0)
       /\ \A i \in 1 .. NumAccesses : InRootSteps(CopyStep(i))
       /\ NumAccesses > 0 =>
             /\ task.countdown[ExecutionStep] =
                   Cardinality({i \in 1 .. NumAccesses : ~Happened("done", CopyStep(i))})
             /\ ExecutionStepStarted =>
                   \A i \in 1 .. NumAccesses : Happened("done", CopyStep(i))

\* The execution step of a task with as many accesses as allowed, one of
\* them fetched from another node, has started.
C19_Witness ==
    /\ task.workflow = "set"
    /\ NumAccesses = MaxAccesses
    /\ ~InRootSteps(ExecutionStep)
    /\ ExecutionStepStarted
    /\ \E i \in 1 .. NumAccesses : RequiresDataFetch(task, CopyStep(i))

SpecialAccesses ==
    {i \in 1 .. NumAccesses :
        tin.accesses[i].type \in {"reduction", "commutative", "concurrent"}}

\* C20: the copy step of a reduction, commutative or concurrent access is a
\* plain step for every source and target, in or out of cluster mode: no
\* transfer is issued for it, the access is not marked valid in a namespace,
\* and the step is done, the execution step released, when the workflow
\* start returns; a task with only such accesses starts executing at once.
C20_SpecialAccessNullStep ==
    task.workflow = "set" =>
       /\ \A i \in SpecialAccesses :
             /\ task.kind[CopyStep(i)] = "nullCopy"
             /\ CopyStep(i) \notin task.fetching
             /\ ~task.validNamespaceSelf[i]
             /\ Happened("done", CopyStep(i))
       /\ (NumAccesses > 0 /\ SpecialAccesses = 1 .. NumAccesses) =>
             Happened("start", ExecutionStep)

\* A task offloaded in cluster mode with a concurrent access to data of
\* another node and a reduction on data of the directory.
C20_Witness ==
    /\ task.workflow = "set"
    /\ tin.inClusterMode
    /\ NumAccesses >= 2
    /\ SpecialAccesses = 1 .. NumAccesses
    /\ \E i \in SpecialAccesses :
          tin.accesses[i].type = "concurrent" /\ tin.accesses[i].source = "otherNode"
    /\ \E i \in SpecialAccesses :
          tin.accesses[i].type = "reduction" /\ tin.accesses[i].source = "directory"
    /\ Happened("start", ExecutionStep)

\* ------------------------------------------------------------------------
\* Properties of the leaf under concurrency
\* ------------------------------------------------------------------------

\* How often task t occurs in the sequence s.
Occurrences(s, t) == Cardinality({i \in DOMAIN s : s[i] = t})

RECURSIVE InProducersHands(_, _)
\* How often task t is held by the producers of P between two steps of
\* their calls.
InProducersHands(P, t) ==
    IF P = {} THEN 0
    ELSE LET p == CHOOSE x \in P : TRUE
         IN Occurrences(ptasks[p], t) + InProducersHands(P \ {p}, t)

\* How often task t is held by the worker inside getTask (dequeued, not yet
\* returned) or inside disable (drained, not yet passed on).
InWorkersHands(t) ==
    (IF lpc \in {"rebalance", "overflow"} /\ ltask = t THEN 1 ELSE 0) + Occurrences(lbatch, t)

\* How often task t is in one of the four places of a task at rest.
AtRest(t) ==
    (IF pollingSlot = t THEN 1 ELSE 0) + Occurrences(queue, t) + inParent[t] + returned[t]

\* No thread is inside a call on the leaf.
NoCallInProgress ==
    /\ lpc \in {"ready", "parked"}
    /\ \A p \in Producers : ppc[p] = "idle"

\* C23: every task handed to the leaf is, at all times, in exactly one
\* place: the polling slot, the queue, a batch passed to the parent, the
\* result of one getTask call, or, while a call on the leaf is in progress,
\* the hands of the thread making it; between calls it is in one of the
\* first four.  No task is lost, duplicated or overwritten in the slot.
C23_TaskConservation ==
    \A t \in 1 .. MaxConcurrentTasks :
        /\ t < nextTask => AtRest(t) + InProducersHands(Producers, t) + InWorkersHands(t) = 1
        /\ t >= nextTask => AtRest(t) + InProducersHands(Producers, t) + InWorkersHands(t) = 0
        /\ (NoCallInProgress /\ t < nextTask) => AtRest(t) = 1

\* Every task was handed to the leaf and each of the four places holds one
\* or was used: a task was returned, one was passed to the parent by
\* disable while a producer was inside addTask.
C23_Witness ==
    /\ nextTask = MaxConcurrentTasks + 1
    /\ \E t \in 1 .. MaxConcurrentTasks : returned[t] = 1
    /\ \E t \in 1 .. MaxConcurrentTasks : inParent[t] = 1
    /\ dis.done /\ ~dis.quiet /\ dis.parentCalls = 1
    /\ NoCallInProgress

\* No thread is inside addTask or addTaskBatch.
NoProducerInCall == \A p \in Producers : ppc[p] = "idle"

\* C21 as stated: in no reachable state is the leaf marked idle with a task
\* in its queue, an empty polling slot and no resumeIdle call for its CPU
\* since it was marked idle.
C21_NoTaskStrandedOnIdleLeaf ==
    ~ ( /\ leafIdle
        /\ queue # <<>>
        /\ pollingSlot = NoTask
        /\ ~resumed )

\* The same with every call finished and the worker parked: nothing is left
\* that would wake the worker for the queued task.
C21_StrandedForGood ==
    /\ leafIdle
    /\ lpc = "parked"
    /\ queue # <<>>
    /\ pollingSlot = NoTask
    /\ ~resumed
    /\ NoProducerInCall

\* A producer that put a task in the slot and saw the leaf idle is about to
\* call resumeIdle.
ResumeIdleUnderWay == \E p \in Producers : ppc[p] = "resume"

\* C22: no wake-up is lost on the polling slot.  Whenever the leaf is idle
\* with a task in its slot, the producer that put it there saw the leaf
\* idle and has called resumeIdle for its CPU or is about to; and the worker
\* parks only with the leaf marked idle, so a task put in the slot of a
\* leaf that was not idle is returned by getTask before the worker parks.
C22_NoLostWakeUpOnSlot ==
    /\ (leafIdle /\ pollingSlot # NoTask) => (resumed \/ ResumeIdleUnderWay)
    /\ (lpc = "parked") => leafIdle
    /\ (gt.done /\ gt.markedIdle) => gt.lockedEmpty

\* The worker is parked on an idle leaf, a producer put a task in the slot,
\* saw the leaf idle, called resumeIdle and returned.
C22_Witness ==
    /\ lpc = "parked"
    /\ leafIdle
    /\ pollingSlot # NoTask
    /\ resumed
    /\ NoProducerInCall

\* The worker is inside getTask, past the test of _idle at its start.
InsideGetTask == lpc \in {"slot", "queue", "rebalance", "overflow", "parent", "poll", "recheck"}

\* C24: getTask returns no task if and only if it marked the leaf idle and
\* the CPU idle, under the lock and with the slot seen empty there; before
\* that it found the queue empty and asked the parent.  A call that finds
\* the leaf idle clears _idle and un-idles the CPU before anything else.
\* With doWait the busy-wait loop reads the slot at most as often as the
\* polling budget says, not at all with a budget of 0; without doWait the
\* slot is read once.
C24_NoTaskIffMarkedIdle ==
    /\ gt.done => ((gt.result = NoTask) <=> gt.markedIdle)
    /\ gt.markedIdle => (gt.lockedEmpty /\ gt.queueEmpty /\ gt.parentAsked)
    /\ (gt.done /\ gt.markedIdle) => (leafIdle /\ cpuIdle)
    /\ InsideGetTask => (~leafIdle /\ ~cpuIdle)
    /\ gt.doWait => gt.reads <= pollingIterations
    /\ (gt.doWait /\ pollingIterations = 0) => gt.reads = 0
    /\ (gt.called /\ ~gt.doWait) => gt.reads <= 1
    /\ (lpc = "recheck" /\ ~gt.doWait) => gt.reads = 1

\* getTask(true) with a polling budget of 0 found the slot and the queue
\* empty, asked the parent, read the slot only under the lock and returned
\* no task, leaving the leaf idle.
C24_Witness ==
    /\ gt.done
    /\ gt.result = NoTask
    /\ gt.markedIdle
    /\ gt.doWait
    /\ pollingIterations = 0
    /\ gt.reads = 0
    /\ gt.parentAsked
    /\ lpc = "parked"

\* disable has returned and no producer was inside the leaf or entered it
\* between the call and the return.
DisabledWithoutProducer ==
    /\ dis.done
    /\ dis.quiet
    /\ nextTask = dis.next0
    /\ NoProducerInCall

\* The tasks the leaf held when disable was called.
HeldAtDisable ==
    {dis.queue0[i] : i \in DOMAIN dis.queue0} \cup ({dis.slot0} \ {NoTask})

\* C26: when disable returns and no producer ran meanwhile, the queue and
\* the polling slot are empty, the leaf and its CPU are not idle (the parent
\* and the idle set were told if the leaf was idle), and the tasks the leaf
\* held, those of the queue and the one of the slot, went to the parent in
\* one addTaskBatch call; a leaf that held no task does not call the parent.
C26_DisableDrainsToParent ==
    DisabledWithoutProducer =>
        /\ queue = <<>>
        /\ pollingSlot = NoTask
        /\ ~leafIdle
        /\ ~cpuIdle
        /\ dis.wasIdle => (dis.unidledChild /\ dis.unidledCPU)
        /\ {dis.batch[i] : i \in DOMAIN dis.batch} = HeldAtDisable
        /\ Len(dis.batch) = Cardinality(HeldAtDisable)
        /\ dis.parentCalls = IF HeldAtDisable = {} THEN 0 ELSE 1
        /\ \A t \in HeldAtDisable : inParent[t] = 1

\* disable was called on an idle leaf with a task in the queue and one in
\* the slot, and has returned.
C26_Witness ==
    /\ DisabledWithoutProducer
    /\ dis.wasIdle
    /\ dis.queue0 # <<>>
    /\ dis.slot0 # NoTask
    /\ dis.parentCalls = 1

\* ------------------------------------------------------------------------
\* Properties of the rebalance flag
\* ------------------------------------------------------------------------

\* The step is a getTask call that handed tasks to the parent.
RebalanceOverflowStep == last'.op = "getTask" /\ last'.overflow /\ hostScheduler = "created"

\* C25: the rebalance flag becomes set only in an updateQueueThreshold call
\* that strictly lowers the threshold; it is false after every addTask and
\* after every getTask.  A getTask hands tasks to the parent only when the
\* slot was empty, it took its task from the queue, the flag was set and
\* the queue that is left exceeds 1.5 x threshold; the flag is clear
\* afterwards, so one lowering causes at most one such overflow, and a
\* getTask served from the polling slot causes none.
C25_RebalanceOnlyAfterShrink ==
    /\ [] ( /\ last.op \in {"addTask", "getTask"} => ~rebalance
            /\ (last.op = "getTask" /\ last.slotBefore # NoTask) => ~last.overflow )
    /\ [][ /\ (rebalance' /\ ~rebalance) =>
                (last'.op = "updateQueueThreshold" /\ queueThreshold' < queueThreshold)
           /\ RebalanceOverflowStep =>
                /\ rebalance
                /\ ~rebalance'
                /\ last'.slotBefore = NoTask
                /\ last'.queueBefore # <<>>
                /\ last'.result \in {last'.queueBefore[i] : i \in DOMAIN last'.queueBefore}
                /\ last'.elements = Len(last'.queueBefore) - 1
                /\ 2 * last'.elements > 3 * queueThreshold
                /\ last'.batch # <<>>
         ]_vars

\* The threshold was lowered from 2 to 1 with three tasks in the queue, and
\* the next getTask took one and handed one to the parent.
C25_Witness ==
    /\ last.op = "getTask"
    /\ last.overflow
    /\ last.threshold = 1
    /\ Len(last.queueBefore) = 3
    /\ ~rebalance

\* ------------------------------------------------------------------------
\* Properties of the shutdown controllers' loop
\* ------------------------------------------------------------------------

\* Worker t is a shutdown controller inside its loop.
InControllerLoop(t) == wpc[t] \in {"loop", "noidle", "join"}

\* C27: a shutdown controller leaves its loop only right after it found no
\* idle worker, and then only when it is not the main controller or
\* _shutdownThreads is 1; so the main controller is the last worker to
\* decrement _shutdownThreads.  Every worker decrements _shutdownThreads
\* once, as its last step before exiting, and all have when shutdown returns.
C27_ControllerLeavesLoopLast ==
    /\ [] ( /\ \A t \in Workers :
                 /\ decrements[t] <= 1
                 /\ (decrements[t] = 1) <=> (wpc[t] \in {"exiting", "exited"})
            /\ (mainController # NoThread /\ decrements[mainController] = 1) =>
                 /\ shutdownThreads = 0
                 /\ \A t \in Workers : decrements[t] = 1
            /\ ipc = "returned" => \A t \in Workers : decrements[t] = 1 )
    /\ [][ \A t \in Workers :
              /\ (InControllerLoop(t) /\ ~InControllerLoop(t)') =>
                    /\ wpc[t] = "noidle"
                    /\ wpc'[t] = "dec"
                    /\ (~wIsMain[t]) \/ shutdownThreads = 1
              /\ (wpc'[t] = "noidle" /\ wpc[t] # "noidle") =>
                    (wpc[t] = "loop" /\ idleThreads = {})
              /\ (wpc'[t] = "exiting" /\ wpc[t] # "exiting") =>
                    (wpc[t] = "dec" /\ shutdownThreads' = shutdownThreads - 1)
              /\ (wpc'[t] = "exited" /\ wpc[t] # "exited") => wpc[t] = "exiting"
         ]_vars

\* A shutdown has returned in which a controller that is not the main one
\* left its loop while a worker had not parked yet, and the main controller
\* shut that worker down.
C27_Witness ==
    /\ ipc = "returned"
    /\ Len(designations) >= 2
    /\ idleAtStart < totalThreads
    /\ \E t \in Workers : poppedBy[t] = <<mainController>>
    /\ \A t \in Workers : decrements[t] = 1

\* C28: under fair scheduling, with every worker parking in the end, a
\* shutdown that was called returns: the wait of the initiating thread for
\* an idle worker of each CPU, the loop of the main controller and the
\* joins all end, also when a controller that is not the main one has left
\* before a worker that lags behind parked.
C28_ShutdownTerminates == mustExit ~> (ipc = "returned")

\* The shutdown returned although a controller that is not the main one
\* had exited before the last worker parked: the main controller popped
\* that worker after another controller was designated.
C28_Witness ==
    /\ ipc = "returned"
    /\ Len(designations) >= 2
    /\ idleAtStart < totalThreads
    /\ \E t \in Workers : poppedBy[t] = <<mainController>>
    /\ \E c \in CPUs : acceptsWork[c] /\ cpuController[c] = NoThread


\* ------------------------------------------------------------------------
\* executeTask on a task that already has a workflow; createDataCopyStep
\* ------------------------------------------------------------------------

\* What a step of the task appended to its log.
Appended == SubSeq(task'.log, Len(task.log) + 1, Len(task'.log))

\* The steps and edges of the workflow are those it was built with.
SameWorkflow ==
    /\ task'.workflow = task.workflow
    /\ task'.kind = task.kind
    /\ task'.successors = task.successors
    /\ task'.rootSteps = task.rootSteps

\* The calls of the return from a wait clause.
TaskwaitReturnCalls(released) ==
    << <<"completeDelayedRelease", TheTask>>, <<"markAsUnblocked", TheTask>>,
       <<"handleExitTaskwait", TheTask>>, <<"unregisterTaskDataAccesses", TheTask>>,
       <<"taskFinished", TheTask>>, <<"markAsReleased", TheTask>> >>
    \o (IF released THEN << <<"disposeTask", TheTask>> >> ELSE <<>>)

IsPrefix(p, q) == Len(p) <= Len(q) /\ SubSeq(q, 1, Len(p)) = p

CopySourceKind ==
    IF copyArgs.source = "null" THEN "host" ELSE PlaceType(copyArgs.source)

CopyTargetKind == PlaceType(copyArgs.target)

ClusterPairs == { <<"host", "cluster">>, <<"cluster", "host">>, <<"cluster", "cluster">> }

\* C30: for an access that is not a reduction, commutative or concurrent,
\* createDataCopyStep returns a cluster copy exactly when the source is the
\* directory and the runtime is in cluster mode, or the (source kind, target
\* kind) pair is host->cluster, cluster->host or cluster->cluster; otherwise
\* it returns a null step.
C30_ClusterCopyExactlyForClusterPairs ==
    (copyStep # "none" /\ copyArgs.type \notin {"reduction", "commutative", "concurrent"}) =>
       /\ copyStep \in {"clusterCopy", "nullCopy"}
       /\ (copyStep = "clusterCopy") <=>
             \/ (copyArgs.source = "directory" /\ copyArgs.inClusterMode)
             \/ <<CopySourceKind, CopyTargetKind>> \in ClusterPairs

\* A copy between the memory nodes of two cluster nodes.
C30_Witness ==
    /\ copyStep = "clusterCopy"
    /\ copyArgs.type = "readwrite"
    /\ copyArgs.source = "otherNode"
    /\ copyArgs.target = "thisNode"


\* ------------------------------------------------------------------------
\* Properties of WorkflowBase::start
\* ------------------------------------------------------------------------

RootSteps == {task.rootSteps[k] : k \in DOMAIN task.rootSteps}

ClusterCopyRoots == {s \in RootSteps : task.kind[s] = "clusterCopy"}

\* The root steps whose data must be fetched from another node.
FetchRoots == {s \in ClusterCopyRoots : RequiresDataFetch(task, s)}

FetchRootsFrom(source) == {s \in FetchRoots : tin.accesses[s[2]].source = source}

RECURSIVE TotalFragments(_)

TotalFragments(S) ==
    IF S = {}
    THEN 0
    ELSE LET s == CHOOSE x \in S : TRUE
         IN tin.accesses[s[2]].fragments + TotalFragments(S \ {s})

CallsFor(source) ==
    {k \in DOMAIN task.fetchCalls : task.fetchCalls[k].source = source}

CallsWith(s) ==
    {k \in DOMAIN task.fetchCalls :
        \E j \in DOMAIN task.fetchCalls[k].steps : task.fetchCalls[k].steps[j] = s}

\* C31: WorkflowBase::start calls fetchVector once for each source memory
\* place that some root cluster copy requiring a fetch has, with the sum of
\* the fragments of those steps and with exactly those steps, each once;
\* every such step is in exactly one call; there is no call when no root
\* step requires a fetch, and none before the workflow is started.
C31_OneFetchVectorPerSource ==
    /\ task.workflow = "null" => task.fetchCalls = <<>>
    /\ task.workflow = "set" =>
          /\ \A source \in MemoryPlaces :
                Cardinality(CallsFor(source)) =
                   IF FetchRootsFrom(source) # {} THEN 1 ELSE 0
          /\ \A k \in DOMAIN task.fetchCalls :
                LET call == task.fetchCalls[k] IN
                /\ {call.steps[j] : j \in DOMAIN call.steps} = FetchRootsFrom(call.source)
                /\ Len(call.steps) = Cardinality(FetchRootsFrom(call.source))
                /\ call.nFragments = TotalFragments(FetchRootsFrom(call.source))
          /\ \A s \in FetchRoots : Cardinality(CallsWith(s)) = 1
          /\ FetchRoots = {} => task.fetchCalls = <<>>

\* Two accesses to data of the same node, of one and of two fragments, were
\* fetched by one call for three fragments.
C31_Witness ==
    /\ task.workflow = "set"
    /\ Len(task.fetchCalls) = 1
    /\ Len(task.fetchCalls[1].steps) = 2
    /\ task.fetchCalls[1].nFragments = 3

\* C32 as stated: when the workflow has been started, start() was called on
\* every root step that is not a cluster copy requiring a fetch, and every
\* root step was either started or handed to fetchVector.
C32_OtherRootsStarted ==
    task.workflow = "set" =>
       /\ \A s \in RootSteps \ FetchRoots : Happened("start", s)
       /\ \A s \in RootSteps : Happened("start", s) \/ CallsWith(s) # {}

\* C32 as amended: when the workflow has been started, start() was called on
\* every root step that is not a cluster copy and on no root cluster copy;
\* every root cluster copy was asked requiresDataFetch once, was handed to
\* fetchVector if the answer was true, and otherwise had its successors
\* released without being started; so every root step was started, handed
\* to fetchVector or completed.
C32_NonCopyRootsStarted ==
    task.workflow = "set" =>
       /\ \A s \in RootSteps \ ClusterCopyRoots : Happened("start", s)
       /\ \A s \in ClusterCopyRoots :
             /\ ~Happened("start", s)
             /\ Cardinality(Positions("requiresDataFetch", s)) = 1
             /\ CallsWith(s) # {} <=> s \in FetchRoots
             /\ s \notin FetchRoots => Happened("done", s)
       /\ \A s \in RootSteps :
             Happened("start", s) \/ CallsWith(s) # {} \/ Happened("done", s)

\* A workflow whose roots are a plain copy step that was started, a cluster
\* copy that required no fetch and was not started, and whose execution
\* step has run.
C32_Witness ==
    /\ task.workflow = "set"
    /\ \E s \in RootSteps \ ClusterCopyRoots : Happened("start", s)
    /\ \E s \in ClusterCopyRoots \ FetchRoots : Happened("done", s) /\ ~Happened("start", s)
    /\ Happened("body", TheTask)


\* ------------------------------------------------------------------------
\* Properties of setupTaskwaitWorkflow
\* ------------------------------------------------------------------------

TwPositions(event, what) == {i \in 1 .. Len(tw.log) : tw.log[i] = <<event, what>>}

Releases(how) == TwPositions("releaseTaskwaitFragment", how)

Deletions == TwPositions("deleteWorkflow", "workflow")

\* C33: the taskwait fragment is released at most once, and once when the
\* call and the copy are done.  Without output location it is released in
\* the call itself, not as first, and there is no workflow and no copy
\* step.  With one, the copy step is the only root, the fragment is released
\* as first and only after the copy step is done, and the workflow is
\* deleted once, right after the release.
C33_TaskwaitFragmentReleasedOnce ==
    /\ Cardinality(Releases("first") \cup Releases("notFirst")) <= 1
    /\ tw.pc = "done" => Cardinality(Releases("first") \cup Releases("notFirst")) = 1
    /\ (fragment.outputLocation = "null" /\ tw.pc # "ready") =>
          /\ tw.pc = "done"
          /\ tw.log = << <<"releaseTaskwaitFragment", "notFirst">> >>
          /\ tw.workflow = "null"
          /\ tw.kind = "none"
          /\ tw.rootSteps = <<>>
    /\ (fragment.outputLocation # "null" /\ tw.pc # "ready") =>
          /\ tw.rootSteps = <<"copy">>
          /\ tw.kind \in {"nullCopy", "clusterCopy"}
          /\ Releases("notFirst") = {}
          /\ \A j \in Releases("first") : \E i \in TwPositions("done", "copy") : i < j
          /\ \A j \in Releases("first") : j + 1 \in Deletions
          /\ \A j \in Deletions : j - 1 \in Releases("first")
          /\ Cardinality(Deletions) <= 1
          /\ tw.pc = "done" => (Cardinality(Deletions) = 1 /\ ~tw.workflowAlive)
          /\ tw.pc = "pending" => (tw.workflowAlive /\ Releases("first") = {})

\* The fragment of data of another node was released after its copy step
\* was fetched by one call of fetchVector.
C33_Witness ==
    /\ tw.pc = "done"
    /\ fragment.location = "otherNode"
    /\ fragment.outputLocation = "thisNode"
    /\ Len(tw.fetchCalls) = 1
    /\ Releases("first") # {}
    /\ ~tw.workflowAlive

====
